---- MODULE Spec2Model ----
(***************************************************************************)
(* Restaurant reservation and ordering API (Flask + SQLAlchemy).           *)
(*                                                                         *)
(* The state is the committed content of the relational store (one         *)
(* function per table, keyed by primary key), the position of the one      *)
(* handler that commits more than once (create_order), and the last HTTP   *)
(* response.  Every session.commit() of the source is one step: a request  *)
(* that commits once is one action, create_order is one action per commit. *)
(* create_app replaces db.session by a thread-local scoped_session that    *)
(* no teardown removes, so what a request assigns and does not commit      *)
(* stays in the session of its worker thread (db_session below).           *)
(***************************************************************************)
EXTENDS Integers, Sequences, FiniteSets, TLC

VARIABLES users, restaurants, menus, reservations, orders, order_items,
          seq, co, resp, db_session

vars == <<users, restaurants, menus, reservations, orders, order_items,
          seq, co, resp, db_session>>

tables == <<users, restaurants, menus, reservations, orders, order_items>>

(***************************************************************************)
(* Bounds of the explored instance.                                        *)
(***************************************************************************)
(* the ordering subsystem *)
OrdersMaxUsers == 1
OrdersMaxRestaurants == 2
OrdersMaxMenus == 1
OrdersMaxItems == 2
OrdersMaxOrders == 1

(* the reservation subsystem *)
BookingMaxUsers == 3
BookingMaxRestaurants == 1
BookingMaxReservations == 2

(* the administration of users, restaurants and menus *)
AdminMaxUsers == 1
AdminMaxRestaurants == 1
AdminMaxMenus == 1

(***************************************************************************)
(* Generic helpers.                                                        *)
(***************************************************************************)
Has(data, k) == k \in DOMAIN data

Restrict(f, K) == [k \in K |-> f[k]]

Insert(table, id, row) == [i \in DOMAIN table \cup {id} |-> IF i = id THEN row ELSE table[i]]

Delete(table, id) == [i \in DOMAIN table \ {id} |-> table[i]]

(* FirstMissing that goes through the fields from the last to the first *)
LastMissing(fields, data) ==
    IF \A i \in 1..Len(fields) : Has(data, fields[i]) THEN ""
    ELSE fields[CHOOSE i \in 1..Len(fields) :
                   ~Has(data, fields[i]) /\ \A j \in (i + 1)..Len(fields) : Has(data, fields[j])]

RECURSIVE FirstMissing(_, _)
FirstMissing(fields, data) ==
    IF fields = <<>> THEN ""
    ELSE IF ~Has(data, Head(fields)) THEN Head(fields)
    ELSE FirstMissing(Tail(fields), data)

Response(op, caller, id, status, msg, body) ==
    [op |-> op, caller |-> caller, id |-> id, status |-> status, msg |-> msg, body |-> body]

NoBody == <<>>

(* An exception that no handler catches: Flask answers 500. *)
Unhandled(op, caller, id) == Response(op, caller, id, 500, "Internal Server Error", NoBody)

(***************************************************************************)
(* datetime.strptime.  A string is a sequence of one-character strings.    *)
(* Each parser returns [ok, v]; ok = FALSE is ValueError.                  *)
(***************************************************************************)
DigitVal(c) ==
    CASE c = "0" -> 0 [] c = "1" -> 1 [] c = "2" -> 2 [] c = "3" -> 3 [] c = "4" -> 4
      [] c = "5" -> 5 [] c = "6" -> 6 [] c = "7" -> 7 [] c = "8" -> 8 [] c = "9" -> 9
      [] OTHER -> -1

DigitAt(s, i) == IF i >= 1 /\ i <= Len(s) THEN DigitVal(s[i]) ELSE -1

CharAt(s, i) == IF i >= 1 /\ i <= Len(s) THEN s[i] ELSE ""

ValueError == [ok |-> FALSE, v |-> <<>>, end |-> 0]

(* %H at position i, followed by the literal ":" : 2[0-3]|[0-1]\d|\d *)
MatchHour(s, i) ==
    LET a == DigitAt(s, i)
        b == DigitAt(s, i + 1)
    IN  IF a >= 0 /\ b >= 0 /\ a * 10 + b <= 23 /\ CharAt(s, i + 2) = ":"
        THEN [ok |-> TRUE, v |-> <<a * 10 + b>>, end |-> i + 2]
        ELSE IF a >= 0 /\ CharAt(s, i + 1) = ":"
        THEN [ok |-> TRUE, v |-> <<a>>, end |-> i + 1]
        ELSE ValueError

(* %M at position i, last directive of the format: [0-5]\d|\d *)
MatchMinute(s, i) ==
    LET a == DigitAt(s, i)
        b == DigitAt(s, i + 1)
    IN  IF a >= 0 /\ a <= 5 /\ b >= 0
        THEN [ok |-> TRUE, v |-> <<a * 10 + b>>, end |-> i + 1]
        ELSE IF a >= 0
        THEN [ok |-> TRUE, v |-> <<a>>, end |-> i]
        ELSE ValueError

(* '%H:%M' from position i to the end of the string *)
MatchHM(s, i) ==
    LET h == MatchHour(s, i)
        m == IF h.ok THEN MatchMinute(s, h.end + 1) ELSE ValueError
    IN  IF h.ok /\ m.ok /\ m.end = Len(s)
        THEN [ok |-> TRUE, v |-> h.v \o m.v, end |-> m.end]
        ELSE ValueError

(* datetime.strptime(s, '%H:%M').time() *)
ParseTime(s) == MatchHM(s, 1)

(* %m followed by the literal "-" : 1[0-2]|0[1-9]|[1-9] *)
MatchMonth(s, i) ==
    LET a == DigitAt(s, i)
        b == DigitAt(s, i + 1)
    IN  IF a >= 0 /\ b >= 0 /\ a * 10 + b >= 1 /\ a * 10 + b <= 12 /\ CharAt(s, i + 2) = "-"
        THEN [ok |-> TRUE, v |-> <<a * 10 + b>>, end |-> i + 2]
        ELSE IF a >= 1 /\ CharAt(s, i + 1) = "-"
        THEN [ok |-> TRUE, v |-> <<a>>, end |-> i + 1]
        ELSE ValueError

(* %d : 3[0-1]|[1-2]\d|0[1-9]|[1-9]; sep = "" when %d ends the format,
   " " when whitespace follows it *)
MatchDay(s, i, sep) ==
    LET a == DigitAt(s, i)
        b == DigitAt(s, i + 1)
        two == a >= 0 /\ b >= 0 /\ a * 10 + b >= 1 /\ a * 10 + b <= 31
    IN  IF two /\ (sep = "" \/ CharAt(s, i + 2) = sep)
        THEN [ok |-> TRUE, v |-> <<a * 10 + b>>, end |-> i + 1]
        ELSE IF a >= 1 /\ (sep = "" \/ CharAt(s, i + 1) = sep)
        THEN [ok |-> TRUE, v |-> <<a>>, end |-> i]
        ELSE ValueError

IsLeap(y) == (y % 4 = 0 /\ y % 100 # 0) \/ y % 400 = 0

DaysIn(y, m) ==
    IF m = 2 THEN (IF IsLeap(y) THEN 29 ELSE 28)
    ELSE IF m \in {4, 6, 9, 11} THEN 30 ELSE 31

(* '%Y-%m-%d' from position 1; sep as in MatchDay *)
MatchYMD(s, sep) ==
    LET y == [k \in 1..4 |-> DigitAt(s, k)]
        yok == (\A k \in 1..4 : y[k] >= 0) /\ CharAt(s, 5) = "-"
        yv == y[1] * 1000 + y[2] * 100 + y[3] * 10 + y[4]
        m == IF yok THEN MatchMonth(s, 6) ELSE ValueError
        d == IF m.ok THEN MatchDay(s, m.end + 1, sep) ELSE ValueError
    IN  IF yok /\ m.ok /\ d.ok /\ yv >= 1 /\ d.v[1] <= DaysIn(yv, m.v[1])
        THEN [ok |-> TRUE, v |-> <<yv>> \o m.v \o d.v, end |-> d.end]
        ELSE ValueError

(* datetime.strptime(s, '%Y-%m-%d').date() *)
ParseDate(s) ==
    LET r == MatchYMD(s, "")
    IN  IF r.ok /\ r.end = Len(s) THEN r ELSE ValueError

RECURSIVE SkipSpaces(_, _)
SkipSpaces(s, i) == IF CharAt(s, i) = " " THEN SkipSpaces(s, i + 1) ELSE i

(* datetime.strptime(s, '%Y-%m-%d %H:%M'): the blank of the format matches
   one or more blanks *)
ParseDateTime(s) ==
    LET d == MatchYMD(s, " ")
        j == IF d.ok THEN SkipSpaces(s, d.end + 1) ELSE 0
        t == IF d.ok /\ j > d.end + 1 THEN MatchHM(s, j) ELSE ValueError
    IN  IF d.ok /\ t.ok THEN [ok |-> TRUE, v |-> d.v \o t.v, end |-> t.end] ELSE ValueError

(***************************************************************************)
(* Foreign keys.  A DELETE of a row that another row references is         *)
(* rejected by the store (IntegrityError), which the handlers report as    *)
(* 500 and which leaves the row in place.                                  *)
(***************************************************************************)
(* the foreign keys of the reservations and of the menus table *)
ReservationReferences(column, id) ==
    \E v \in DOMAIN reservations : reservations[v][column] = id

MenuReferences(id) == \E m \in DOMAIN menus : menus[m].restaurant_id = id

(* UserReferenced without the restaurants *)
UserReferencedElsewhere(id) ==
    \/ \E o \in DOMAIN orders : orders[o].user_id = id
    \/ ReservationReferences("user_id", id)

UserReferenced(id) ==
    \/ \E r \in DOMAIN restaurants : restaurants[r].admin_id = id
    \/ \E o \in DOMAIN orders : orders[o].user_id = id
    \/ ReservationReferences("user_id", id)

(* RestaurantReferenced without the menus *)
RestaurantReferencedElsewhere(id) ==
    \/ \E o \in DOMAIN orders : orders[o].restaurant_id = id
    \/ ReservationReferences("restaurant_id", id)

RestaurantReferenced(id) ==
    \/ \E o \in DOMAIN orders : orders[o].restaurant_id = id
    \/ MenuReferences(id)
    \/ ReservationReferences("restaurant_id", id)

MenuReferenced(id) == \E i \in DOMAIN order_items : order_items[i].menu_id = id

(* current_user = User.query.get(current_user_id) is None: the token outlived
   its user, and current_user.role raises AttributeError *)
NoUser(caller) == caller \notin DOMAIN users

(* IsAdmin that every role passes *)
IsAdminAnyRole(caller) == users[caller].role \in {"admin", "client"}

(* IsAdmin with the comparison inverted *)
IsAdminInverted(caller) == users[caller].role # "admin"

IsAdmin(caller) == users[caller].role = "admin"

(***************************************************************************)
(* db.session.  The session is one per worker thread and nothing ends it   *)
(* when a request ends.  A request is served either by the worker whose    *)
(* session still holds what its earlier requests left (w = TRUE) or by a   *)
(* worker whose session holds nothing (w = FALSE).  db_session is what the *)
(* first one holds:                                                        *)
(*   restaurants  rows that were assigned to and not committed, each as it *)
(*                was loaded (orig) and as it stands in memory (obj);      *)
(*   users        e-mail addresses that an autoflush wrote and no commit   *)
(*                followed; such a row is locked until the commit.         *)
(***************************************************************************)
NoLeftover == [restaurants |-> <<>>, users |-> <<>>]

(* the UPDATE of a flush sets the columns whose value is not the loaded one *)
Flush(row, held) ==
    [k \in DOMAIN row |-> IF held.obj[k] # held.orig[k] THEN held.obj[k] ELSE row[k]]

(* the tables as the transaction of the serving session writes them *)
Users(w) ==
    IF w
    THEN [id \in DOMAIN users |->
             IF id \in DOMAIN db_session.users
             THEN [users[id] EXCEPT !.email = db_session.users[id]]
             ELSE users[id]]
    ELSE users

Restaurants(w) ==
    IF w
    THEN [id \in DOMAIN restaurants |->
             IF id \in DOMAIN db_session.restaurants
             THEN Flush(restaurants[id], db_session.restaurants[id])
             ELSE restaurants[id]]
    ELSE restaurants

(* the first statement of a request flushes the session; the UPDATE of a row
   that another request deleted matches no row *)
StaleDataError(w) ==
    w /\ \E id \in DOMAIN db_session.restaurants : id \notin DOMAIN restaurants

(* another session's transaction holds the lock of the users row *)
Locked(w, id) == ~w /\ id \in DOMAIN db_session.users

(* db.session.commit() *)
commit(w, u, r) ==
    /\ users' = u
    /\ restaurants' = r
    /\ db_session' = IF w THEN NoLeftover ELSE db_session

(* db.session.commit() raises: the transaction is rolled back *)
rollback(w) ==
    /\ UNCHANGED <<users, restaurants>>
    /\ db_session' = IF w THEN NoLeftover ELSE db_session

(* the handler returns without a commit and without a pending assignment *)
rejected == UNCHANGED <<users, restaurants, db_session>>

(* the worker thread ends and its session with it *)
thread_exit ==
    /\ db_session # NoLeftover
    /\ db_session' = NoLeftover
    /\ UNCHANGED <<tables, seq, co, resp>>

(***************************************************************************)
(* POST /auth/register                                                     *)
(***************************************************************************)
find_by_username(w, name) == {u \in DOMAIN users : Users(w)[u].username = name}

find_by_email(w, email) == {u \in DOMAIN users : Users(w)[u].email = email}

(* register without the lookup of the e-mail address *)
register_skipping_email(w, data) ==
    LET role == IF Has(data, "role") THEN data["role"] ELSE "client"
        id == seq.user
    IN  /\ UNCHANGED <<menus, reservations, orders, order_items, co>>
        /\ IF StaleDataError(w)
           THEN /\ resp' = Unhandled("register", 0, 0)
                /\ rollback(w) /\ UNCHANGED seq
           ELSE IF find_by_username(w, data["username"]) # {}
           THEN /\ resp' = Response("register", 0, 0, 400, "Username already exists", NoBody)
                /\ rejected /\ UNCHANGED seq
           ELSE IF role \notin {"client", "admin"}
           THEN /\ resp' = Response("register", 0, 0, 400, "Invalid role", NoBody)
                /\ rejected /\ UNCHANGED seq
           ELSE /\ commit(w, Insert(Users(w), id, [username |-> data["username"],
                                                   email |-> data["email"], role |-> role]),
                          Restaurants(w))
                /\ seq' = [seq EXCEPT !.user = id + 1]
                /\ resp' = Response("register", 0, id, 201, "User created successfully", NoBody)

(* register that stores whatever role the request carries *)
register_any_role(w, data) ==
    LET role == IF Has(data, "role") THEN data["role"] ELSE "client"
        id == seq.user
    IN  /\ UNCHANGED <<menus, reservations, orders, order_items, co>>
        /\ IF StaleDataError(w)
           THEN /\ resp' = Unhandled("register", 0, 0)
                /\ rollback(w) /\ UNCHANGED seq
           ELSE IF find_by_username(w, data["username"]) # {}
           THEN /\ resp' = Response("register", 0, 0, 400, "Username already exists", NoBody)
                /\ rejected /\ UNCHANGED seq
           ELSE IF find_by_email(w, data["email"]) # {}
           THEN /\ resp' = Response("register", 0, 0, 400, "Email already exists", NoBody)
                /\ rejected /\ UNCHANGED seq
           ELSE /\ commit(w, Insert(Users(w), id, [username |-> data["username"],
                                                   email |-> data["email"], role |-> role]),
                          Restaurants(w))
                /\ seq' = [seq EXCEPT !.user = id + 1]
                /\ resp' = Response("register", 0, id, 201, "User created successfully", NoBody)

register(w, data) ==
    LET role == IF Has(data, "role") THEN data["role"] ELSE "client"
        id == seq.user
    IN  /\ UNCHANGED <<menus, reservations, orders, order_items, co>>
        /\ IF StaleDataError(w)
           THEN /\ resp' = Unhandled("register", 0, 0)
                /\ rollback(w) /\ UNCHANGED seq
           ELSE IF find_by_username(w, data["username"]) # {}
           THEN /\ resp' = Response("register", 0, 0, 400, "Username already exists", NoBody)
                /\ rejected /\ UNCHANGED seq
           ELSE IF find_by_email(w, data["email"]) # {}
           THEN /\ resp' = Response("register", 0, 0, 400, "Email already exists", NoBody)
                /\ rejected /\ UNCHANGED seq
           ELSE IF role \notin {"client", "admin"}
           THEN /\ resp' = Response("register", 0, 0, 400, "Invalid role", NoBody)
                /\ rejected /\ UNCHANGED seq
           ELSE /\ commit(w, Insert(Users(w), id, [username |-> data["username"],
                                                   email |-> data["email"], role |-> role]),
                          Restaurants(w))
                /\ seq' = [seq EXCEPT !.user = id + 1]
                /\ resp' = Response("register", 0, id, 201, "User created successfully", NoBody)

(***************************************************************************)
(* PUT /users/<id>, DELETE /users/<id>                                     *)
(***************************************************************************)
update_user(w, caller, id, data) ==
    /\ UNCHANGED <<menus, reservations, orders, order_items, seq, co>>
    /\ IF StaleDataError(w)
       THEN /\ resp' = Unhandled("update_user", caller, id)
            /\ rollback(w)
       ELSE IF id \notin DOMAIN users
       THEN /\ resp' = Response("update_user", caller, id, 404, "User not found", NoBody)
            /\ rejected
       ELSE IF NoUser(caller)
       THEN /\ resp' = Unhandled("update_user", caller, id)
            /\ rejected
       ELSE IF caller # id /\ ~IsAdmin(caller)
       THEN /\ resp' = Response("update_user", caller, id, 403, "Permission denied", NoBody)
            /\ rejected
       ELSE IF Has(data, "email") /\ find_by_email(w, data["email"]) \ {id} # {}
       THEN /\ resp' = Response("update_user", caller, id, 400, "Email already exists", NoBody)
            /\ rejected
       ELSE IF Has(data, "username") /\ find_by_username(w, data["username"]) \ {id} # {}
       THEN (* user.email is assigned, and the query of find_by_username
               flushes it *)
            LET written == Has(data, "email") /\ data["email"] # Users(w)[id].email
            IN  /\ written => ~Locked(w, id)
                /\ resp' = Response("update_user", caller, id, 400, "Username already exists", NoBody)
                /\ UNCHANGED <<users, restaurants>>
                /\ db_session' = IF w /\ written
                                 THEN [db_session EXCEPT !.users = Insert(@, id, data["email"])]
                                 ELSE db_session
       ELSE /\ ~Locked(w, id)
            /\ commit(w, [Users(w) EXCEPT ![id] =
                           [username |-> IF Has(data, "username") THEN data["username"] ELSE @.username,
                            email |-> IF Has(data, "email") THEN data["email"] ELSE @.email,
                            role |-> @.role]],
                      Restaurants(w))
            /\ resp' = Response("update_user", caller, id, 200, "User updated successfully", NoBody)

(* delete_user that looks at the caller before it looks for the user *)
delete_user_permission_first(w, caller, id) ==
    /\ UNCHANGED <<menus, reservations, orders, order_items, seq, co>>
    /\ IF StaleDataError(w)
       THEN /\ resp' = Unhandled("delete_user", caller, id)
            /\ rollback(w)
       ELSE IF NoUser(caller)
       THEN /\ resp' = Unhandled("delete_user", caller, id)
            /\ rejected
       ELSE IF caller # id /\ ~IsAdmin(caller)
       THEN /\ resp' = Response("delete_user", caller, id, 403, "Permission denied", NoBody)
            /\ rejected
       ELSE IF id \notin DOMAIN users
       THEN /\ resp' = Response("delete_user", caller, id, 404, "User not found", NoBody)
            /\ rejected
       ELSE IF UserReferenced(id)
       THEN /\ ~Locked(w, id)
            /\ resp' = Response("delete_user", caller, id, 500, "Something went wrong", NoBody)
            /\ rollback(w)
       ELSE /\ ~Locked(w, id)
            /\ commit(w, Delete(Users(w), id), Restaurants(w))
            /\ resp' = Response("delete_user", caller, id, 200, "User deleted successfully", NoBody)

delete_user(w, caller, id) ==
    /\ UNCHANGED <<menus, reservations, orders, order_items, seq, co>>
    /\ IF StaleDataError(w)
       THEN /\ resp' = Unhandled("delete_user", caller, id)
            /\ rollback(w)
       ELSE IF id \notin DOMAIN users
       THEN /\ resp' = Response("delete_user", caller, id, 404, "User not found", NoBody)
            /\ rejected
       ELSE IF NoUser(caller)
       THEN /\ resp' = Unhandled("delete_user", caller, id)
            /\ rejected
       ELSE IF caller # id /\ ~IsAdmin(caller)
       THEN /\ resp' = Response("delete_user", caller, id, 403, "Permission denied", NoBody)
            /\ rejected
       ELSE IF UserReferenced(id)
       THEN /\ ~Locked(w, id)
            /\ resp' = Response("delete_user", caller, id, 500, "Something went wrong", NoBody)
            /\ rollback(w)
       ELSE /\ ~Locked(w, id)
            /\ commit(w, Delete(Users(w), id), Restaurants(w))
            /\ resp' = Response("delete_user", caller, id, 200, "User deleted successfully", NoBody)

(***************************************************************************)
(* POST /restaurants, PUT /restaurants/<id>, DELETE /restaurants/<id>      *)
(***************************************************************************)
create_restaurant(w, caller, data) ==
    LET missing == FirstMissing(<<"name", "address", "phone", "open_time", "close_time">>, data)
        open_time == ParseTime(data["open_time"])
        close_time == ParseTime(data["close_time"])
        id == seq.restaurant
    IN  /\ UNCHANGED <<menus, reservations, orders, order_items, co>>
        /\ IF StaleDataError(w)
           THEN /\ resp' = Unhandled("create_restaurant", caller, 0)
                /\ rollback(w) /\ UNCHANGED seq
           ELSE IF NoUser(caller)
           THEN /\ resp' = Unhandled("create_restaurant", caller, 0)
                /\ rejected /\ UNCHANGED seq
           ELSE IF ~IsAdmin(caller)
           THEN /\ resp' = Response("create_restaurant", caller, 0, 403, "Admin privileges required", NoBody)
                /\ rejected /\ UNCHANGED seq
           ELSE IF missing # ""
           THEN /\ resp' = Response("create_restaurant", caller, 0, 400, "Missing required field: ", missing)
                /\ rejected /\ UNCHANGED seq
           ELSE IF ~open_time.ok \/ ~close_time.ok
           THEN /\ resp' = Response("create_restaurant", caller, 0, 400, "Invalid time format. Use HH:MM", NoBody)
                /\ rejected /\ UNCHANGED seq
           ELSE /\ commit(w, Users(w), Insert(Restaurants(w), id,
                       [name |-> data["name"], address |-> data["address"], phone |-> data["phone"],
                        description |-> IF Has(data, "description") THEN data["description"] ELSE "",
                        open_time |-> open_time.v, close_time |-> close_time.v,
                        admin_id |-> caller]))
                /\ seq' = [seq EXCEPT !.restaurant = id + 1]
                /\ resp' = Response("create_restaurant", caller, id, 201, "Restaurant created successfully", NoBody)

update_restaurant(w, caller, id, data) ==
    LET held == w /\ id \in DOMAIN db_session.restaurants
        orig == IF held THEN db_session.restaurants[id].orig ELSE restaurants[id]
        loaded == IF held THEN db_session.restaurants[id].obj ELSE restaurants[id]
        open_time == IF Has(data, "open_time") THEN ParseTime(data["open_time"]) ELSE ValueError
        close_time == IF Has(data, "close_time") THEN ParseTime(data["close_time"]) ELSE ValueError
        (* the row in memory after the assignments of lines 229-236, of line
           242 and of line 248 *)
        texts == [loaded EXCEPT
                     !.name = IF Has(data, "name") THEN data["name"] ELSE @,
                     !.address = IF Has(data, "address") THEN data["address"] ELSE @,
                     !.phone = IF Has(data, "phone") THEN data["phone"] ELSE @,
                     !.description = IF Has(data, "description") THEN data["description"] ELSE @]
        opened == IF Has(data, "open_time") THEN [texts EXCEPT !.open_time = open_time.v] ELSE texts
        closed == IF Has(data, "close_time") THEN [opened EXCEPT !.close_time = close_time.v] ELSE opened
        (* a return without a commit leaves the assigned row in the session *)
        Pending(obj, keys) ==
            IF w /\ (held \/ keys \cap DOMAIN data # {})
            THEN [db_session EXCEPT !.restaurants = Insert(@, id, [orig |-> orig, obj |-> obj])]
            ELSE db_session
    IN  /\ UNCHANGED <<menus, reservations, orders, order_items, seq, co>>
        /\ IF StaleDataError(w)
           THEN /\ resp' = Unhandled("update_restaurant", caller, id)
                /\ rollback(w)
           ELSE IF id \notin DOMAIN restaurants
           THEN /\ resp' = Response("update_restaurant", caller, id, 404, "Restaurant not found", NoBody)
                /\ rejected
           ELSE IF restaurants[id].admin_id # caller /\ NoUser(caller)
           THEN /\ resp' = Unhandled("update_restaurant", caller, id)
                /\ rejected
           ELSE IF restaurants[id].admin_id # caller /\ ~IsAdmin(caller)
           THEN /\ resp' = Response("update_restaurant", caller, id, 403, "Permission denied", NoBody)
                /\ rejected
           ELSE IF Has(data, "open_time") /\ ~open_time.ok
           THEN /\ resp' = Response("update_restaurant", caller, id, 400, "Invalid open_time format. Use HH:MM", NoBody)
                /\ UNCHANGED <<users, restaurants>>
                /\ db_session' = Pending(texts, {"name", "address", "phone", "description"})
           ELSE IF Has(data, "close_time") /\ ~close_time.ok
           THEN /\ resp' = Response("update_restaurant", caller, id, 400, "Invalid close_time format. Use HH:MM", NoBody)
                /\ UNCHANGED <<users, restaurants>>
                /\ db_session' = Pending(opened, {"name", "address", "phone", "description", "open_time"})
           ELSE /\ commit(w, Users(w),
                          [Restaurants(w) EXCEPT ![id] =
                              Flush(restaurants[id], [orig |-> orig, obj |-> closed])])
                /\ resp' = Response("update_restaurant", caller, id, 200, "Restaurant updated successfully", NoBody)

(* delete_restaurant without the permission check *)
delete_restaurant_by_anyone(w, caller, id) ==
    /\ UNCHANGED <<menus, reservations, orders, order_items, seq, co>>
    /\ IF StaleDataError(w)
       THEN /\ resp' = Unhandled("delete_restaurant", caller, id)
            /\ rollback(w)
       ELSE IF id \notin DOMAIN restaurants
       THEN /\ resp' = Response("delete_restaurant", caller, id, 404, "Restaurant not found", NoBody)
            /\ rejected
       ELSE IF RestaurantReferenced(id)
       THEN /\ resp' = Response("delete_restaurant", caller, id, 500, "IntegrityError", NoBody)
            /\ rollback(w)
       ELSE /\ commit(w, Users(w), Delete(Restaurants(w), id))
            /\ resp' = Response("delete_restaurant", caller, id, 200, "Restaurant deleted successfully", NoBody)

delete_restaurant(w, caller, id) ==
    /\ UNCHANGED <<menus, reservations, orders, order_items, seq, co>>
    /\ IF StaleDataError(w)
       THEN /\ resp' = Unhandled("delete_restaurant", caller, id)
            /\ rollback(w)
       ELSE IF id \notin DOMAIN restaurants
       THEN /\ resp' = Response("delete_restaurant", caller, id, 404, "Restaurant not found", NoBody)
            /\ rejected
       ELSE IF restaurants[id].admin_id # caller /\ NoUser(caller)
       THEN /\ resp' = Unhandled("delete_restaurant", caller, id)
            /\ rejected
       ELSE IF restaurants[id].admin_id # caller /\ ~IsAdmin(caller)
       THEN /\ resp' = Response("delete_restaurant", caller, id, 403, "Permission denied", NoBody)
            /\ rejected
       ELSE IF RestaurantReferenced(id)
       THEN /\ resp' = Response("delete_restaurant", caller, id, 500, "IntegrityError", NoBody)
            /\ rollback(w)
       ELSE /\ commit(w, Users(w), Delete(Restaurants(w), id))
            /\ resp' = Response("delete_restaurant", caller, id, 200, "Restaurant deleted successfully", NoBody)

(***************************************************************************)
(* POST /menus, PUT /menus/<id>, DELETE /menus/<id>                        *)
(***************************************************************************)
create_menu(w, caller, data) ==
    LET missing == FirstMissing(<<"name", "price", "category", "restaurant_id">>, data)
        rid == data["restaurant_id"]
        id == seq.menu
    IN  /\ UNCHANGED <<reservations, orders, order_items, co>>
        /\ IF missing # ""
           THEN /\ resp' = Response("create_menu", caller, 0, 400, "Missing required field: ", missing)
                /\ rejected /\ UNCHANGED <<menus, seq>>
           ELSE IF StaleDataError(w)
           THEN /\ resp' = Unhandled("create_menu", caller, 0)
                /\ rollback(w) /\ UNCHANGED <<menus, seq>>
           ELSE IF rid \notin DOMAIN restaurants
           THEN /\ resp' = Response("create_menu", caller, 0, 404, "Restaurant not found", NoBody)
                /\ rejected /\ UNCHANGED <<menus, seq>>
           ELSE IF restaurants[rid].admin_id # caller /\ NoUser(caller)
           THEN /\ resp' = Unhandled("create_menu", caller, 0)
                /\ rejected /\ UNCHANGED <<menus, seq>>
           ELSE IF restaurants[rid].admin_id # caller /\ ~IsAdmin(caller)
           THEN /\ resp' = Response("create_menu", caller, 0, 403, "Permission denied", NoBody)
                /\ rejected /\ UNCHANGED <<menus, seq>>
           ELSE /\ menus' = Insert(menus, id,
                       [name |-> data["name"],
                        description |-> IF Has(data, "description") THEN data["description"] ELSE "",
                        price |-> data["price"], category |-> data["category"],
                        restaurant_id |-> rid])
                /\ commit(w, Users(w), Restaurants(w))
                /\ seq' = [seq EXCEPT !.menu = id + 1]
                /\ resp' = Response("create_menu", caller, id, 201, "Menu item created successfully", NoBody)

(* update_menu that carries a new price into the order items of the menu *)
update_menu_repricing(w, caller, id, data) ==
    /\ UNCHANGED <<reservations, orders, seq, co>>
    /\ IF StaleDataError(w)
       THEN /\ resp' = Unhandled("update_menu", caller, id)
            /\ rollback(w) /\ UNCHANGED <<menus, order_items>>
       ELSE IF id \notin DOMAIN menus
       THEN /\ resp' = Response("update_menu", caller, id, 404, "Menu item not found", NoBody)
            /\ rejected /\ UNCHANGED <<menus, order_items>>
       ELSE IF restaurants[menus[id].restaurant_id].admin_id # caller /\ NoUser(caller)
       THEN /\ resp' = Unhandled("update_menu", caller, id)
            /\ rejected /\ UNCHANGED <<menus, order_items>>
       ELSE IF restaurants[menus[id].restaurant_id].admin_id # caller /\ ~IsAdmin(caller)
       THEN /\ resp' = Response("update_menu", caller, id, 403, "Permission denied", NoBody)
            /\ rejected /\ UNCHANGED <<menus, order_items>>
       ELSE /\ menus' = [menus EXCEPT ![id] =
                   [name |-> IF Has(data, "name") THEN data["name"] ELSE @.name,
                    description |-> IF Has(data, "description") THEN data["description"] ELSE @.description,
                    price |-> IF Has(data, "price") THEN data["price"] ELSE @.price,
                    category |-> IF Has(data, "category") THEN data["category"] ELSE @.category,
                    restaurant_id |-> @.restaurant_id]]
            /\ order_items' = [i \in DOMAIN order_items |->
                   IF order_items[i].menu_id = id /\ Has(data, "price")
                   THEN [order_items[i] EXCEPT !.price = data["price"]]
                   ELSE order_items[i]]
            /\ commit(w, Users(w), Restaurants(w))
            /\ resp' = Response("update_menu", caller, id, 200, "Menu item updated successfully", NoBody)

(* update_menu that refuses to write while an order is being created *)
update_menu_serialized(w, caller, id, data) ==
    /\ UNCHANGED <<reservations, orders, order_items, seq, co>>
    /\ IF StaleDataError(w)
       THEN /\ resp' = Unhandled("update_menu", caller, id)
            /\ rollback(w) /\ UNCHANGED menus
       ELSE IF id \notin DOMAIN menus
       THEN /\ resp' = Response("update_menu", caller, id, 404, "Menu item not found", NoBody)
            /\ rejected /\ UNCHANGED menus
       ELSE IF restaurants[menus[id].restaurant_id].admin_id # caller /\ NoUser(caller)
       THEN /\ resp' = Unhandled("update_menu", caller, id)
            /\ rejected /\ UNCHANGED menus
       ELSE IF restaurants[menus[id].restaurant_id].admin_id # caller /\ ~IsAdmin(caller)
       THEN /\ resp' = Response("update_menu", caller, id, 403, "Permission denied", NoBody)
            /\ rejected /\ UNCHANGED menus
       ELSE IF co.pc # "idle"
       THEN /\ resp' = Response("update_menu", caller, id, 409, "Order in progress", NoBody)
            /\ rejected /\ UNCHANGED menus
       ELSE /\ menus' = [menus EXCEPT ![id] =
                   [name |-> IF Has(data, "name") THEN data["name"] ELSE @.name,
                    description |-> IF Has(data, "description") THEN data["description"] ELSE @.description,
                    price |-> IF Has(data, "price") THEN data["price"] ELSE @.price,
                    category |-> IF Has(data, "category") THEN data["category"] ELSE @.category,
                    restaurant_id |-> @.restaurant_id]]
            /\ commit(w, Users(w), Restaurants(w))
            /\ resp' = Response("update_menu", caller, id, 200, "Menu item updated successfully", NoBody)

update_menu(w, caller, id, data) ==
    /\ UNCHANGED <<reservations, orders, order_items, seq, co>>
    /\ IF StaleDataError(w)
       THEN /\ resp' = Unhandled("update_menu", caller, id)
            /\ rollback(w) /\ UNCHANGED menus
       ELSE IF id \notin DOMAIN menus
       THEN /\ resp' = Response("update_menu", caller, id, 404, "Menu item not found", NoBody)
            /\ rejected /\ UNCHANGED menus
       ELSE IF restaurants[menus[id].restaurant_id].admin_id # caller /\ NoUser(caller)
       THEN /\ resp' = Unhandled("update_menu", caller, id)
            /\ rejected /\ UNCHANGED menus
       ELSE IF restaurants[menus[id].restaurant_id].admin_id # caller /\ ~IsAdmin(caller)
       THEN /\ resp' = Response("update_menu", caller, id, 403, "Permission denied", NoBody)
            /\ rejected /\ UNCHANGED menus
       ELSE /\ menus' = [menus EXCEPT ![id] =
                   [name |-> IF Has(data, "name") THEN data["name"] ELSE @.name,
                    description |-> IF Has(data, "description") THEN data["description"] ELSE @.description,
                    price |-> IF Has(data, "price") THEN data["price"] ELSE @.price,
                    category |-> IF Has(data, "category") THEN data["category"] ELSE @.category,
                    restaurant_id |-> @.restaurant_id]]
            /\ commit(w, Users(w), Restaurants(w))
            /\ resp' = Response("update_menu", caller, id, 200, "Menu item updated successfully", NoBody)

delete_menu(w, caller, id) ==
    /\ UNCHANGED <<reservations, orders, order_items, seq, co>>
    /\ IF StaleDataError(w)
       THEN /\ resp' = Unhandled("delete_menu", caller, id)
            /\ rollback(w) /\ UNCHANGED menus
       ELSE IF id \notin DOMAIN menus
       THEN /\ resp' = Response("delete_menu", caller, id, 404, "Menu item not found", NoBody)
            /\ rejected /\ UNCHANGED menus
       ELSE IF restaurants[menus[id].restaurant_id].admin_id # caller /\ NoUser(caller)
       THEN /\ resp' = Unhandled("delete_menu", caller, id)
            /\ rejected /\ UNCHANGED menus
       ELSE IF restaurants[menus[id].restaurant_id].admin_id # caller /\ ~IsAdmin(caller)
       THEN /\ resp' = Response("delete_menu", caller, id, 403, "Permission denied", NoBody)
            /\ rejected /\ UNCHANGED menus
       ELSE IF MenuReferenced(id)
       THEN /\ resp' = Response("delete_menu", caller, id, 500, "IntegrityError", NoBody)
            /\ rollback(w) /\ UNCHANGED menus
       ELSE /\ menus' = Delete(menus, id)
            /\ commit(w, Users(w), Restaurants(w))
            /\ resp' = Response("delete_menu", caller, id, 200, "Menu item deleted successfully", NoBody)

(***************************************************************************)
(* POST /orders.  The handler commits the Order row and then every         *)
(* OrderItem row on its own; other requests commit in between.             *)
(*   create_order       lines 64-101: validation, total, pickup_time       *)
(*   create_order_save  lines 104-114: the Order row                       *)
(*   create_order_item  lines 117-133: one OrderItem row, the response     *)
(*                      after the last one                                 *)
(***************************************************************************)
NoRequest == [pc |-> "idle", caller |-> 0, data |-> <<>>, total |-> 0,
              pickup_time |-> <<>>, oid |-> 0, idx |-> 0]

(* the request has not answered yet *)
InProgress == Response("create_order", 0, 0, 0, "", NoBody)

(* check_items without the comparison of menu_item.restaurant_id *)
RECURSIVE check_items_any_restaurant(_, _, _)
check_items_any_restaurant(items, rid, total) ==
    IF items = <<>> THEN [status |-> 0, msg |-> "", id |-> 0, total |-> total]
    ELSE LET item == Head(items)
         IN  IF ~Has(item, "menu_id") \/ ~Has(item, "quantity")
             THEN [status |-> 400, msg |-> "Each item must have menu_id and quantity",
                   id |-> 0, total |-> total]
             ELSE IF item["menu_id"] \notin DOMAIN menus
             THEN [status |-> 404, msg |-> "Menu item not found",
                   id |-> item["menu_id"], total |-> total]
             ELSE check_items_any_restaurant(Tail(items), rid,
                              total + menus[item["menu_id"]].price * item["quantity"])

(* lines 83-95: the loop over data['items']; the first failing item returns *)
RECURSIVE check_items(_, _, _)
check_items(items, rid, total) ==
    IF items = <<>> THEN [status |-> 0, msg |-> "", id |-> 0, total |-> total]
    ELSE LET item == Head(items)
         IN  IF ~Has(item, "menu_id") \/ ~Has(item, "quantity")
             THEN [status |-> 400, msg |-> "Each item must have menu_id and quantity",
                   id |-> 0, total |-> total]
             ELSE IF item["menu_id"] \notin DOMAIN menus
             THEN [status |-> 404, msg |-> "Menu item not found",
                   id |-> item["menu_id"], total |-> total]
             ELSE IF menus[item["menu_id"]].restaurant_id # rid
             THEN [status |-> 400, msg |-> "Menu item does not belong to this restaurant",
                   id |-> item["menu_id"], total |-> total]
             ELSE check_items(Tail(items), rid,
                              total + menus[item["menu_id"]].price * item["quantity"])

(* create_order that parses pickup_time before it looks at the items *)
create_order_parsing_first(caller, data) ==
    LET missing == FirstMissing(<<"pickup_time", "restaurant_id", "items">>, data)
        rid == data["restaurant_id"]
        items == data["items"]
        checked == check_items(items.v, rid, 0)
        pickup_time == ParseDateTime(data["pickup_time"])
    IN  /\ co.pc = "idle"
        /\ UNCHANGED <<tables, seq, db_session>>
        /\ IF missing # ""
           THEN /\ resp' = Response("create_order", caller, 0, 400, "Missing required field: ", missing)
                /\ UNCHANGED co
           ELSE IF rid \notin DOMAIN restaurants
           THEN /\ resp' = Response("create_order", caller, 0, 404, "Restaurant not found", NoBody)
                /\ UNCHANGED co
           ELSE IF ~pickup_time.ok
           THEN /\ resp' = Response("create_order", caller, 0, 400, "Invalid pickup_time format. Use YYYY-MM-DD HH:MM", NoBody)
                /\ UNCHANGED co
           ELSE IF items.type # "list" \/ Len(items.v) = 0
           THEN /\ resp' = Response("create_order", caller, 0, 400, "Order must include at least one item", NoBody)
                /\ UNCHANGED co
           ELSE IF checked.status # 0
           THEN /\ resp' = Response("create_order", caller, checked.id, checked.status, checked.msg, NoBody)
                /\ UNCHANGED co
           ELSE /\ co' = [pc |-> "save_order", caller |-> caller, data |-> data,
                          total |-> checked.total, pickup_time |-> pickup_time.v,
                          oid |-> 0, idx |-> 1]
                /\ resp' = InProgress

create_order(caller, data) ==
    LET missing == FirstMissing(<<"pickup_time", "restaurant_id", "items">>, data)
        rid == data["restaurant_id"]
        items == data["items"]
        checked == check_items(items.v, rid, 0)
        pickup_time == ParseDateTime(data["pickup_time"])
    IN  /\ co.pc = "idle"
        /\ UNCHANGED <<tables, seq, db_session>>
        /\ IF missing # ""
           THEN /\ resp' = Response("create_order", caller, 0, 400, "Missing required field: ", missing)
                /\ UNCHANGED co
           ELSE IF rid \notin DOMAIN restaurants
           THEN /\ resp' = Response("create_order", caller, 0, 404, "Restaurant not found", NoBody)
                /\ UNCHANGED co
           ELSE IF items.type # "list" \/ Len(items.v) = 0
           THEN /\ resp' = Response("create_order", caller, 0, 400, "Order must include at least one item", NoBody)
                /\ UNCHANGED co
           ELSE IF checked.status # 0
           THEN /\ resp' = Response("create_order", caller, checked.id, checked.status, checked.msg, NoBody)
                /\ UNCHANGED co
           ELSE IF ~pickup_time.ok
           THEN /\ resp' = Response("create_order", caller, 0, 400, "Invalid pickup_time format. Use YYYY-MM-DD HH:MM", NoBody)
                /\ UNCHANGED co
           ELSE /\ co' = [pc |-> "save_order", caller |-> caller, data |-> data,
                          total |-> checked.total, pickup_time |-> pickup_time.v,
                          oid |-> 0, idx |-> 1]
                /\ resp' = InProgress

(* create_order_save that takes user_id from the body when it holds one *)
create_order_save_for_body_user ==
    LET id == seq.order
        user_id == IF Has(co.data, "user_id") THEN co.data["user_id"] ELSE co.caller
    IN  /\ co.pc = "save_order"
        /\ UNCHANGED <<users, restaurants, menus, reservations, order_items, db_session>>
        /\ IF NoUser(user_id) \/ co.data["restaurant_id"] \notin DOMAIN restaurants
           THEN /\ resp' = Response("create_order", co.caller, 0, 500, "IntegrityError", NoBody)
                /\ co' = NoRequest
                /\ UNCHANGED <<orders, seq>>
           ELSE /\ orders' = Insert(orders, id,
                       [status |-> "pending", pickup_time |-> co.pickup_time, total |-> co.total,
                        notes |-> IF Has(co.data, "notes") THEN co.data["notes"] ELSE "",
                        user_id |-> user_id, restaurant_id |-> co.data["restaurant_id"]])
                /\ seq' = [seq EXCEPT !.order = id + 1]
                /\ co' = [co EXCEPT !.pc = "save_items", !.oid = id]
                /\ resp' = InProgress

create_order_save ==
    LET id == seq.order
    IN  /\ co.pc = "save_order"
        /\ UNCHANGED <<users, restaurants, menus, reservations, order_items, db_session>>
        /\ IF NoUser(co.caller) \/ co.data["restaurant_id"] \notin DOMAIN restaurants
           THEN /\ resp' = Response("create_order", co.caller, 0, 500, "IntegrityError", NoBody)
                /\ co' = NoRequest
                /\ UNCHANGED <<orders, seq>>
           ELSE /\ orders' = Insert(orders, id,
                       [status |-> "pending", pickup_time |-> co.pickup_time, total |-> co.total,
                        notes |-> IF Has(co.data, "notes") THEN co.data["notes"] ELSE "",
                        user_id |-> co.caller, restaurant_id |-> co.data["restaurant_id"]])
                /\ seq' = [seq EXCEPT !.order = id + 1]
                /\ co' = [co EXCEPT !.pc = "save_items", !.oid = id]
                /\ resp' = InProgress

create_order_item ==
    LET item == co.data["items"].v[co.idx]
        id == seq.item
    IN  /\ co.pc = "save_items"
        /\ UNCHANGED <<users, restaurants, menus, reservations, orders, db_session>>
        /\ IF item["menu_id"] \notin DOMAIN menus
           THEN /\ resp' = Response("create_order", co.caller, co.oid, 500, "AttributeError", NoBody)
                /\ co' = NoRequest
                /\ UNCHANGED <<order_items, seq>>
           ELSE /\ order_items' = Insert(order_items, id,
                       [quantity |-> item["quantity"], price |-> menus[item["menu_id"]].price,
                        order_id |-> co.oid, menu_id |-> item["menu_id"]])
                /\ seq' = [seq EXCEPT !.item = id + 1]
                /\ IF co.idx = Len(co.data["items"].v)
                   THEN /\ resp' = Response("create_order", co.caller, co.oid, 201,
                                            "Order created successfully",
                                            [id |-> co.oid, total |-> co.total])
                        /\ co' = NoRequest
                   ELSE /\ co' = [co EXCEPT !.idx = @ + 1]
                        /\ resp' = InProgress

(***************************************************************************)
(* PUT /orders/<id>/status                                                 *)
(***************************************************************************)
(* valid_statuses with the status of a cancelled reservation added *)
valid_statuses_with_cancelled == {"pending", "confirmed", "ready", "delivered", "cancelled"}

valid_statuses == {"pending", "confirmed", "ready", "delivered"}

(* update_order_status that also admits the user who placed the order *)
update_order_status_by_owner(caller, id, data) ==
    /\ UNCHANGED <<users, restaurants, menus, reservations, order_items, seq, co, db_session>>
    /\ IF id \notin DOMAIN orders
       THEN /\ resp' = Response("update_order_status", caller, id, 404, "Order not found", NoBody)
            /\ UNCHANGED orders
       ELSE IF restaurants[orders[id].restaurant_id].admin_id # caller /\ NoUser(caller)
       THEN /\ resp' = Unhandled("update_order_status", caller, id)
            /\ UNCHANGED orders
       ELSE IF /\ restaurants[orders[id].restaurant_id].admin_id # caller
               /\ orders[id].user_id # caller
               /\ ~IsAdmin(caller)
       THEN /\ resp' = Response("update_order_status", caller, id, 403, "Permission denied", NoBody)
            /\ UNCHANGED orders
       ELSE IF ~Has(data, "status")
       THEN /\ resp' = Response("update_order_status", caller, id, 400, "Status field is required", NoBody)
            /\ UNCHANGED orders
       ELSE IF data["status"] \notin valid_statuses
       THEN /\ resp' = Response("update_order_status", caller, id, 400, "Invalid status", NoBody)
            /\ UNCHANGED orders
       ELSE /\ orders' = [orders EXCEPT ![id].status = data["status"]]
            /\ resp' = Response("update_order_status", caller, id, 200, "Order status updated successfully", NoBody)

(* update_order_status that looks at the current status and leaves a
   delivered order alone *)
update_order_status_unless_delivered(caller, id, data) ==
    /\ UNCHANGED <<users, restaurants, menus, reservations, order_items, seq, co, db_session>>
    /\ IF id \notin DOMAIN orders
       THEN /\ resp' = Response("update_order_status", caller, id, 404, "Order not found", NoBody)
            /\ UNCHANGED orders
       ELSE IF restaurants[orders[id].restaurant_id].admin_id # caller /\ NoUser(caller)
       THEN /\ resp' = Unhandled("update_order_status", caller, id)
            /\ UNCHANGED orders
       ELSE IF restaurants[orders[id].restaurant_id].admin_id # caller /\ ~IsAdmin(caller)
       THEN /\ resp' = Response("update_order_status", caller, id, 403, "Permission denied", NoBody)
            /\ UNCHANGED orders
       ELSE IF ~Has(data, "status")
       THEN /\ resp' = Response("update_order_status", caller, id, 400, "Status field is required", NoBody)
            /\ UNCHANGED orders
       ELSE IF data["status"] \notin valid_statuses \/ orders[id].status = "delivered"
       THEN /\ resp' = Response("update_order_status", caller, id, 400, "Invalid status", NoBody)
            /\ UNCHANGED orders
       ELSE /\ orders' = [orders EXCEPT ![id].status = data["status"]]
            /\ resp' = Response("update_order_status", caller, id, 200, "Order status updated successfully", NoBody)

update_order_status(caller, id, data) ==
    /\ UNCHANGED <<users, restaurants, menus, reservations, order_items, seq, co, db_session>>
    /\ IF id \notin DOMAIN orders
       THEN /\ resp' = Response("update_order_status", caller, id, 404, "Order not found", NoBody)
            /\ UNCHANGED orders
       ELSE IF restaurants[orders[id].restaurant_id].admin_id # caller /\ NoUser(caller)
       THEN /\ resp' = Unhandled("update_order_status", caller, id)
            /\ UNCHANGED orders
       ELSE IF restaurants[orders[id].restaurant_id].admin_id # caller /\ ~IsAdmin(caller)
       THEN /\ resp' = Response("update_order_status", caller, id, 403, "Permission denied", NoBody)
            /\ UNCHANGED orders
       ELSE IF ~Has(data, "status")
       THEN /\ resp' = Response("update_order_status", caller, id, 400, "Status field is required", NoBody)
            /\ UNCHANGED orders
       ELSE IF data["status"] \notin valid_statuses
       THEN /\ resp' = Response("update_order_status", caller, id, 400, "Invalid status", NoBody)
            /\ UNCHANGED orders
       ELSE /\ orders' = [orders EXCEPT ![id].status = data["status"]]
            /\ resp' = Response("update_order_status", caller, id, 200, "Order status updated successfully", NoBody)

(***************************************************************************)
(* GET /orders/<id>, GET /orders/user, GET /orders/restaurant/<id>         *)
(***************************************************************************)
(* the JSON object of one order item, with the name of its menu *)
order_item_json(i) ==
    [id |-> i, menu_id |-> order_items[i].menu_id, name |-> menus[order_items[i].menu_id].name,
     quantity |-> order_items[i].quantity, price |-> order_items[i].price,
     subtotal |-> order_items[i].price * order_items[i].quantity]

(* the JSON object of one order, without its items *)
order_json(id) == [id |-> id] @@ Restrict(orders[id], DOMAIN orders[id] \ {"notes"})

(* get_order without the permission check *)
get_order_for_anyone(caller, id) ==
    /\ UNCHANGED <<tables, seq, co, db_session>>
    /\ IF id \notin DOMAIN orders
       THEN resp' = Response("get_order", caller, id, 404, "Order not found", NoBody)
       ELSE resp' = Response("get_order", caller, id, 200, "",
                        [id |-> id, notes |-> orders[id].notes,
                         items |-> {order_item_json(i) :
                                      i \in {j \in DOMAIN order_items : order_items[j].order_id = id}}]
                          @@ order_json(id))

get_order(caller, id) ==
    /\ UNCHANGED <<tables, seq, co, db_session>>
    /\ IF id \notin DOMAIN orders
       THEN resp' = Response("get_order", caller, id, 404, "Order not found", NoBody)
       ELSE IF /\ orders[id].user_id # caller
               /\ restaurants[orders[id].restaurant_id].admin_id # caller
               /\ NoUser(caller)
       THEN resp' = Unhandled("get_order", caller, id)
       ELSE IF /\ orders[id].user_id # caller
               /\ restaurants[orders[id].restaurant_id].admin_id # caller
               /\ ~IsAdmin(caller)
       THEN resp' = Response("get_order", caller, id, 403, "Permission denied", NoBody)
       ELSE resp' = Response("get_order", caller, id, 200, "",
                        [id |-> id, notes |-> orders[id].notes,
                         items |-> {order_item_json(i) :
                                      i \in {j \in DOMAIN order_items : order_items[j].order_id = id}}]
                          @@ order_json(id))

get_user_orders(caller) ==
    /\ UNCHANGED <<tables, seq, co, db_session>>
    /\ resp' = Response("get_user_orders", caller, 0, 200, "",
                        {Restrict(order_json(o), DOMAIN order_json(o) \ {"user_id"}) :
                           o \in {x \in DOMAIN orders : orders[x].user_id = caller}})

get_restaurant_orders(caller, restaurant_id) ==
    /\ UNCHANGED <<tables, seq, co, db_session>>
    /\ IF restaurant_id \notin DOMAIN restaurants
       THEN resp' = Response("get_restaurant_orders", caller, restaurant_id, 404, "Restaurant not found", NoBody)
       ELSE IF restaurants[restaurant_id].admin_id # caller /\ NoUser(caller)
       THEN resp' = Unhandled("get_restaurant_orders", caller, restaurant_id)
       ELSE IF restaurants[restaurant_id].admin_id # caller /\ ~IsAdmin(caller)
       THEN resp' = Response("get_restaurant_orders", caller, restaurant_id, 403, "Permission denied", NoBody)
       ELSE resp' = Response("get_restaurant_orders", caller, restaurant_id, 200, "",
                        {Restrict(order_json(o), DOMAIN order_json(o) \ {"restaurant_id"}) :
                           o \in {x \in DOMAIN orders : orders[x].restaurant_id = restaurant_id}})

(***************************************************************************)
(* POST /reservations, GET /reservations/<id>, DELETE /reservations/<id>,  *)
(* GET /reservations/user, GET /reservations/restaurant/<id>               *)
(***************************************************************************)
create_reservation(caller, data) ==
    LET missing == FirstMissing(<<"date", "time", "guests", "restaurant_id">>, data)
        rid == data["restaurant_id"]
        date == ParseDate(data["date"])
        time == ParseTime(data["time"])
        id == seq.reservation
    IN  /\ UNCHANGED <<users, restaurants, menus, orders, order_items, co, db_session>>
        /\ IF missing # ""
           THEN /\ resp' = Response("create_reservation", caller, 0, 400, "Missing required field: ", missing)
                /\ UNCHANGED <<reservations, seq>>
           ELSE IF rid \notin DOMAIN restaurants
           THEN /\ resp' = Response("create_reservation", caller, 0, 404, "Restaurant not found", NoBody)
                /\ UNCHANGED <<reservations, seq>>
           ELSE IF ~date.ok \/ ~time.ok
           THEN /\ resp' = Unhandled("create_reservation", caller, 0)
                /\ UNCHANGED <<reservations, seq>>
           ELSE IF NoUser(caller)
           THEN /\ resp' = Response("create_reservation", caller, 0, 500, "IntegrityError", NoBody)
                /\ UNCHANGED <<reservations, seq>>
           ELSE /\ reservations' = Insert(reservations, id,
                       [date |-> date.v, time |-> time.v, guests |-> data["guests"],
                        notes |-> IF Has(data, "notes") THEN data["notes"] ELSE "",
                        user_id |-> caller, restaurant_id |-> rid, status |-> "pending",
                        updated_at |-> 0])
                /\ seq' = [seq EXCEPT !.reservation = id + 1]
                /\ resp' = Response("create_reservation", caller, id, 201, "Reservation created successfully", NoBody)

(* save_status as a toggle: saving 'cancelled' over 'cancelled' reopens *)
save_status_toggle(row, status) ==
    IF row.status = status THEN [row EXCEPT !.status = "pending", !.updated_at = @ + 1]
    ELSE [row EXCEPT !.status = status, !.updated_at = @ + 1]

(* save_status with an UPDATE on every save *)
save_status_always(row, status) ==
    [row EXCEPT !.status = status, !.updated_at = @ + 1]

(* reservation.status = status; reservation.save_to_db(): the flush emits an
   UPDATE, which also sets updated_at, only when the value differs from the
   loaded one.  updated_at counts the UPDATEs of the row. *)
save_status(row, status) ==
    IF row.status = status THEN row
    ELSE [row EXCEPT !.status = status, !.updated_at = @ + 1]

(* cancel_denied with the comparison of the restaurant's admin inverted *)
cancel_denied_flipped(caller, id) ==
    /\ reservations[id].user_id # caller
    /\ users[caller].role # "admin"
    /\ restaurants[reservations[id].restaurant_id].admin_id = caller

(* lines 174-179 of cancel_reservation: TRUE when the caller is refused *)
cancel_denied(caller, id) ==
    /\ reservations[id].user_id # caller
    /\ users[caller].role # "admin"
    /\ restaurants[reservations[id].restaurant_id].admin_id # caller

(* cancel_reservation that deletes the row (delete_from_db) *)
cancel_reservation_delete(caller, id) ==
    /\ UNCHANGED <<users, restaurants, menus, orders, order_items, seq, co, db_session>>
    /\ IF id \notin DOMAIN reservations
       THEN /\ resp' = Response("cancel_reservation", caller, id, 404, "Reservation not found", NoBody)
            /\ UNCHANGED reservations
       ELSE IF reservations[id].user_id # caller /\ NoUser(caller)
       THEN /\ resp' = Unhandled("cancel_reservation", caller, id)
            /\ UNCHANGED reservations
       ELSE IF cancel_denied(caller, id)
       THEN /\ resp' = Response("cancel_reservation", caller, id, 403, "Permission denied", NoBody)
            /\ UNCHANGED reservations
       ELSE /\ reservations' = Delete(reservations, id)
            /\ resp' = Response("cancel_reservation", caller, id, 200, "Reservation cancelled successfully",
                                [rows_updated |-> 1])

cancel_reservation(caller, id) ==
    /\ UNCHANGED <<users, restaurants, menus, orders, order_items, seq, co, db_session>>
    /\ IF id \notin DOMAIN reservations
       THEN /\ resp' = Response("cancel_reservation", caller, id, 404, "Reservation not found", NoBody)
            /\ UNCHANGED reservations
       ELSE IF reservations[id].user_id # caller /\ NoUser(caller)
       THEN /\ resp' = Unhandled("cancel_reservation", caller, id)
            /\ UNCHANGED reservations
       ELSE IF cancel_denied(caller, id)
       THEN /\ resp' = Response("cancel_reservation", caller, id, 403, "Permission denied", NoBody)
            /\ UNCHANGED reservations
       ELSE /\ reservations' = [reservations EXCEPT ![id] = save_status(@, "cancelled")]
            /\ resp' = Response("cancel_reservation", caller, id, 200, "Reservation cancelled successfully",
                                [rows_updated |-> IF reservations[id].status = "cancelled" THEN 0 ELSE 1])

(* the JSON object of one reservation *)
reservation_json(id) == [id |-> id] @@ reservations[id]

get_reservation(caller, id) ==
    /\ UNCHANGED <<tables, seq, co, db_session>>
    /\ IF id \notin DOMAIN reservations
       THEN resp' = Response("get_reservation", caller, id, 404, "Reservation not found", NoBody)
       ELSE IF /\ reservations[id].user_id # caller
               /\ restaurants[reservations[id].restaurant_id].admin_id # caller
               /\ NoUser(caller)
       THEN resp' = Unhandled("get_reservation", caller, id)
       ELSE IF /\ reservations[id].user_id # caller
               /\ restaurants[reservations[id].restaurant_id].admin_id # caller
               /\ ~IsAdmin(caller)
       THEN resp' = Response("get_reservation", caller, id, 403, "Permission denied", NoBody)
       ELSE resp' = Response("get_reservation", caller, id, 200, "", reservation_json(id))

get_user_reservations(caller) ==
    /\ UNCHANGED <<tables, seq, co, db_session>>
    /\ resp' = Response("get_user_reservations", caller, 0, 200, "",
                        {Restrict(reservation_json(v), DOMAIN reservation_json(v) \ {"user_id"}) :
                           v \in {w \in DOMAIN reservations : reservations[w].user_id = caller}})

get_restaurant_reservations(caller, restaurant_id) ==
    /\ UNCHANGED <<tables, seq, co, db_session>>
    /\ IF restaurant_id \notin DOMAIN restaurants
       THEN resp' = Response("get_restaurant_reservations", caller, restaurant_id, 404, "Restaurant not found", NoBody)
       ELSE IF restaurants[restaurant_id].admin_id # caller /\ NoUser(caller)
       THEN resp' = Unhandled("get_restaurant_reservations", caller, restaurant_id)
       ELSE IF restaurants[restaurant_id].admin_id # caller /\ ~IsAdmin(caller)
       THEN resp' = Response("get_restaurant_reservations", caller, restaurant_id, 403, "Permission denied", NoBody)
       ELSE resp' = Response("get_restaurant_reservations", caller, restaurant_id, 200, "",
                        {Restrict(reservation_json(v), DOMAIN reservation_json(v) \ {"restaurant_id"}) :
                           v \in {w \in DOMAIN reservations : reservations[w].restaurant_id = restaurant_id}})

(***************************************************************************)
(* register and update_user seen as two steps each, the lookups and the    *)
(* commit, with the commits of other requests in between.  The request in  *)
(* flight is held in co; oid is the id of the user it addresses.           *)
(***************************************************************************)
(* the unique columns of the users table: username, email *)
UniqueViolation(table) ==
    \E u, v \in DOMAIN table :
       u # v /\ (table[u].username = table[v].username \/ table[u].email = table[v].email)

(* lines 44-63 of register *)
register_check(data) ==
    LET role == IF Has(data, "role") THEN data["role"] ELSE "client"
    IN  /\ co.pc = "idle"
        /\ UNCHANGED <<tables, seq, db_session>>
        /\ IF find_by_username(FALSE, data["username"]) # {}
           THEN /\ resp' = Response("register", 0, 0, 400, "Username already exists", NoBody)
                /\ UNCHANGED co
           ELSE IF find_by_email(FALSE, data["email"]) # {}
           THEN /\ resp' = Response("register", 0, 0, 400, "Email already exists", NoBody)
                /\ UNCHANGED co
           ELSE IF role \notin {"client", "admin"}
           THEN /\ resp' = Response("register", 0, 0, 400, "Invalid role", NoBody)
                /\ UNCHANGED co
           ELSE /\ co' = [NoRequest EXCEPT !.pc = "register_save",
                                           !.data = [username |-> data["username"],
                                                     email |-> data["email"], role |-> role]]
                /\ resp' = Response("register", 0, 0, 0, "", NoBody)

(* register_save on a table without unique columns *)
register_save_unconstrained ==
    LET id == seq.user
    IN  /\ co.pc = "register_save"
        /\ UNCHANGED <<restaurants, menus, reservations, orders, order_items, db_session>>
        /\ co' = NoRequest
        /\ users' = Insert(users, id, co.data)
        /\ seq' = [seq EXCEPT !.user = id + 1]
        /\ resp' = Response("register", 0, id, 201, "User created successfully", NoBody)

(* lines 65-69 of register: the INSERT fails when another request has
   committed the username or the e-mail address since the lookups *)
register_save ==
    LET id == seq.user
    IN  /\ co.pc = "register_save"
        /\ UNCHANGED <<restaurants, menus, reservations, orders, order_items, db_session>>
        /\ co' = NoRequest
        /\ IF UniqueViolation(Insert(users, id, co.data))
           THEN /\ resp' = Response("register", 0, 0, 500, "Something went wrong", NoBody)
                /\ UNCHANGED <<users, seq>>
           ELSE /\ users' = Insert(users, id, co.data)
                /\ seq' = [seq EXCEPT !.user = id + 1]
                /\ resp' = Response("register", 0, id, 201, "User created successfully", NoBody)

(* lines 74-98 of update_user *)
update_user_check(caller, id, data) ==
    /\ co.pc = "idle"
    /\ UNCHANGED <<tables, seq, db_session>>
    /\ IF id \notin DOMAIN users
       THEN /\ resp' = Response("update_user", caller, id, 404, "User not found", NoBody)
            /\ UNCHANGED co
       ELSE IF NoUser(caller)
       THEN /\ resp' = Unhandled("update_user", caller, id)
            /\ UNCHANGED co
       ELSE IF caller # id /\ ~IsAdmin(caller)
       THEN /\ resp' = Response("update_user", caller, id, 403, "Permission denied", NoBody)
            /\ UNCHANGED co
       ELSE IF Has(data, "email") /\ find_by_email(FALSE, data["email"]) \ {id} # {}
       THEN /\ resp' = Response("update_user", caller, id, 400, "Email already exists", NoBody)
            /\ UNCHANGED co
       ELSE IF Has(data, "username") /\ find_by_username(FALSE, data["username"]) \ {id} # {}
       THEN /\ resp' = Response("update_user", caller, id, 400, "Username already exists", NoBody)
            /\ UNCHANGED co
       ELSE /\ co' = [NoRequest EXCEPT !.pc = "update_user_save", !.caller = caller,
                                       !.data = data, !.oid = id]
            /\ resp' = Response("update_user", caller, id, 0, "", NoBody)

(* lines 100-104 of update_user: the UPDATE fails when the row is gone or
   when another request has committed the username or the e-mail address *)
update_user_save ==
    LET id == co.oid
        row == [username |-> IF Has(co.data, "username") THEN co.data["username"]
                             ELSE users[id].username,
                email |-> IF Has(co.data, "email") THEN co.data["email"] ELSE users[id].email,
                role |-> users[id].role]
    IN  /\ co.pc = "update_user_save"
        /\ UNCHANGED <<restaurants, menus, reservations, orders, order_items, seq, db_session>>
        /\ co' = NoRequest
        /\ IF id \notin DOMAIN users \/ UniqueViolation([users EXCEPT ![id] = row])
           THEN /\ resp' = Response("update_user", co.caller, id, 500, "Something went wrong", NoBody)
                /\ UNCHANGED users
           ELSE /\ users' = [users EXCEPT ![id] = row]
                /\ resp' = Response("update_user", co.caller, id, 200, "User updated successfully", NoBody)

(***************************************************************************)
(* The state after construction: an empty store, no request in flight.     *)
(***************************************************************************)
NoResponse == Response("", 0, 0, 0, "", NoBody)

Init ==
    /\ users = <<>>
    /\ restaurants = <<>>
    /\ menus = <<>>
    /\ reservations = <<>>
    /\ orders = <<>>
    /\ order_items = <<>>
    /\ seq = [user |-> 1, restaurant |-> 1, menu |-> 1, reservation |-> 1, order |-> 1, item |-> 1]
    /\ co = NoRequest
    /\ resp = NoResponse
    /\ db_session = NoLeftover

(***************************************************************************)
(* Request inputs.                                                         *)
(***************************************************************************)
(* a bearer token names the id of a user that registered; it stays valid
   after the user is deleted *)
Callers == 1..(seq.user - 1)

Roles == {"client", "admin"}

T_0900 == <<"0", "9", ":", "0", "0">>
T_900 == <<"9", ":", "0", "0">>
T_2100 == <<"2", "1", ":", "0", "0">>
T_2500 == <<"2", "5", ":", "0", "0">>

D_20250325 == <<"2", "0", "2", "5", "-", "0", "3", "-", "2", "5">>
D_20250230 == <<"2", "0", "2", "5", "-", "0", "2", "-", "3", "0">>

DT_valid == D_20250325 \o <<" ", "1", "8", ":", "0", "0">>
DT_invalid == D_20250325 \o <<"T", "1", "8", ":", "0", "0">>

(* the k-th registration uses the k-th user name and e-mail address *)
UserName(k) == <<"user", k>>
UserMail(k) == <<"mail", k>>

FreshUsers == {[username |-> UserName(seq.user), email |-> UserMail(seq.user), role |-> r] : r \in Roles}

OneRestaurant == {[name |-> "n1", address |-> "a1", phone |-> "p1",
                   open_time |-> T_0900, close_time |-> T_2100]}

Prices == {10, 15}

Quantities == {1, 2}

PlainMenus(maxRestaurant) ==
    {[name |-> "m1", price |-> p, category |-> "c1", restaurant_id |-> r] :
        p \in Prices, r \in 1..maxRestaurant}

PriceUpdates == {[price |-> p] : p \in Prices}

(* every menu id and one id that no menu has; every quantity for menu 1 *)
OrderLines(maxMenu) ==
    {[menu_id |-> m, quantity |-> 1] : m \in 1..(maxMenu + 1)}
        \cup {[menu_id |-> 1, quantity |-> q] : q \in Quantities}

RECURSIVE SeqsUpTo(_, _)
SeqsUpTo(S, n) ==
    IF n = 0 THEN {<<>>}
    ELSE LET shorter == SeqsUpTo(S, n - 1)
         IN  shorter \cup {Append(q, x) : q \in {r \in shorter : Len(r) = n - 1}, x \in S}

JsonList(items) == [type |-> "list", v |-> items]

JsonString == [type |-> "str", v |-> <<>>]

OrderRequests(maxRestaurant, maxMenu, maxItems) ==
    LET full == {[pickup_time |-> DT_valid, restaurant_id |-> r, items |-> JsonList(i)] :
                    r \in 1..maxRestaurant, i \in SeqsUpTo(OrderLines(maxMenu), maxItems)}
        odd == {[pickup_time |-> DT_invalid, restaurant_id |-> 1,
                 items |-> JsonList(<<[menu_id |-> 1, quantity |-> 1]>>)],
                [pickup_time |-> DT_valid, restaurant_id |-> 1, items |-> JsonString],
                [pickup_time |-> DT_valid, restaurant_id |-> 1,
                 items |-> JsonList(<<[menu_id |-> 1]>>)],
                [pickup_time |-> DT_valid, restaurant_id |-> 1]}
    IN  full \cup odd

StatusUpdates == {[status |-> "confirmed"], [status |-> "cancelled"], <<>>}

(***************************************************************************)
(* The ordering subsystem: users, restaurants, menus and orders.           *)
(***************************************************************************)
(* no request of this subsystem leaves anything in a session, so every
   session acts as one that holds nothing *)
NextOrders ==
    \/ \E data \in FreshUsers : seq.user <= OrdersMaxUsers /\ register(FALSE, data)
    \/ \E c \in Callers, data \in OneRestaurant :
          seq.restaurant <= OrdersMaxRestaurants /\ create_restaurant(FALSE, c, data)
    \/ \E c \in Callers, data \in PlainMenus(OrdersMaxRestaurants) :
          seq.menu <= OrdersMaxMenus /\ create_menu(FALSE, c, data)
    \/ \E c \in Callers, id \in 1..OrdersMaxMenus, data \in PriceUpdates : update_menu(FALSE, c, id, data)
    \/ \E c \in Callers, id \in 1..OrdersMaxMenus : delete_menu(FALSE, c, id)
    \/ \E c \in Callers, data \in OrderRequests(OrdersMaxRestaurants, OrdersMaxMenus, OrdersMaxItems) :
          seq.order <= OrdersMaxOrders /\ create_order(c, data)
    \/ create_order_save
    \/ create_order_item
    \/ \E c \in Callers, id \in 1..OrdersMaxOrders, data \in StatusUpdates :
          update_order_status(c, id, data)

SpecOrders == Init /\ [][NextOrders]_vars

(***************************************************************************)
(* Orders: totals, line items and what a failed request leaves behind.     *)
(***************************************************************************)
ItemsOf(items, o) == {i \in DOMAIN items : items[i].order_id = o}

RECURSIVE SumRows(_, _)
SumRows(items, S) ==
    IF S = {} THEN 0
    ELSE LET i == CHOOSE x \in S : TRUE
         IN  items[i].price * items[i].quantity + SumRows(items, S \ {i})

(* the step on which a create_order request answers *)
Answers(status) == resp'.op = "create_order" /\ resp'.status = status

(* C1: when create_order answers 201 for a request with N items, the returned
   total is the stored Order.total, the order has exactly N OrderItem rows,
   and the total is the sum of price x quantity over these rows, each row
   carrying the price of its menu as of the order's creation. *)
C1_Created201TotalAndRows ==
    [][(co.pc = "save_items" /\ Answers(201)) =>
         LET o == co.oid
             rows == ItemsOf(order_items', o)
         IN  /\ resp'.body.id = o
             /\ resp'.body.total = orders'[o].total
             /\ Cardinality(rows) = Len(co.data["items"].v)
             /\ resp'.body.total = SumRows(order_items', rows)]_vars

(* a well-formed item of the request names a menu of another restaurant *)
HasForeignMenu(data) ==
    /\ Has(data, "restaurant_id") /\ Has(data, "items")
    /\ data["items"].type = "list"
    /\ \E k \in 1..Len(data["items"].v) :
          LET item == data["items"].v[k]
          IN  /\ Has(item, "menu_id")
              /\ item["menu_id"] \in DOMAIN menus
              /\ menus[item["menu_id"]].restaurant_id # data["restaurant_id"]

(* C2 as stated: a create_order request with an item whose menu belongs to
   another restaurant than restaurant_id is answered 400, whatever else the
   request holds. *)
C2_ForeignMenuAlways400 ==
    [][\A c \in Callers :
         \A data \in OrderRequests(OrdersMaxRestaurants, OrdersMaxMenus, OrdersMaxItems) :
            (create_order(c, data) /\ HasForeignMenu(data)) => resp'.status = 400]_vars

(* item k is complete and names a menu that does not exist, and every item
   before it is complete and names a menu of the request's restaurant *)
UnknownMenuFirst(data) ==
    \E k \in 1..Len(data["items"].v) :
       LET Item(j) == data["items"].v[j]
           Complete(j) == Has(Item(j), "menu_id") /\ Has(Item(j), "quantity")
       IN  /\ Complete(k)
           /\ Item(k)["menu_id"] \notin DOMAIN menus
           /\ \A j \in 1..(k - 1) :
                 /\ Complete(j)
                 /\ Item(j)["menu_id"] \in DOMAIN menus
                 /\ menus[Item(j)["menu_id"]].restaurant_id = data["restaurant_id"]

(* C2 amended: such a request never succeeds and writes nothing; it is
   answered 404 when no required field is missing and the restaurant does
   not exist or an unknown menu comes first in the items, and 400 otherwise. *)
C2_ForeignMenuRejected ==
    [][\A c \in Callers :
         \A data \in OrderRequests(OrdersMaxRestaurants, OrdersMaxMenus, OrdersMaxItems) :
            (create_order(c, data) /\ HasForeignMenu(data)) =>
               /\ UNCHANGED <<tables, co>>
               /\ resp'.status \in {400, 404}
               /\ resp'.status = 404 <=>
                     /\ Has(data, "pickup_time")
                     /\ \/ data["restaurant_id"] \notin DOMAIN restaurants
                        \/ UnknownMenuFirst(data)]_vars

(* C2 witness: a request whose only item is a menu of the other restaurant
   has been answered 400 *)
C2_Witness ==
    /\ resp.op = "create_order" /\ resp.status = 400
    /\ resp.msg = "Menu item does not belong to this restaurant"
    /\ resp.id \in DOMAIN menus
    /\ Cardinality(DOMAIN restaurants) >= 2

(* C3: a create_order request that is answered anything but 201 leaves no
   Order row and no OrderItem row of that request in the store. *)
C3_FailedOrderWritesNothing ==
    [][(resp'.op = "create_order" /\ resp'.status \notin {0, 201}) =>
         /\ UNCHANGED <<orders, order_items>>
         /\ co.oid \notin DOMAIN orders'
         /\ ItemsOf(order_items', co.oid) = {}]_vars

(* C4: no step changes the total of a stored order or the price of a stored
   order item, and none removes such a row. *)
C4_TotalsAndPricesFrozen ==
    [][/\ \A o \in DOMAIN orders :
             o \in DOMAIN orders' /\ orders'[o].total = orders[o].total
       /\ \A i \in DOMAIN order_items :
             i \in DOMAIN order_items' /\ order_items'[i].price = order_items[i].price]_vars

(* C4 witness: update_menu has just changed the price of a menu that a
   stored order item was bought from at another price *)
C4_Witness ==
    /\ resp.op = "update_menu" /\ resp.status = 200
    /\ \E i \in DOMAIN order_items :
          /\ order_items[i].menu_id = resp.id
          /\ menus[resp.id].price # order_items[i].price

(* C5: every stored order's total equals the sum of price x quantity over
   the stored order items of that order. *)
C5_TotalIsSumOfRows ==
    \A o \in DOMAIN orders : orders[o].total = SumRows(order_items, ItemsOf(order_items, o))

(***************************************************************************)
(* The reservation subsystem: users, restaurants and reservations.         *)
(***************************************************************************)
ReservationRequests(maxRestaurant) ==
    LET full == {[date |-> d, time |-> t, guests |-> 4, restaurant_id |-> r] :
                    d \in {D_20250325, D_20250230}, t \in {T_900, T_2500},
                    r \in 1..(maxRestaurant + 1)}
    IN  full \cup {[date |-> D_20250325, guests |-> 4, restaurant_id |-> 1]}

(* as for the orders, no session holds anything *)
NextBooking ==
    \/ \E data \in FreshUsers : seq.user <= BookingMaxUsers /\ register(FALSE, data)
    \/ \E c \in Callers, id \in Callers : delete_user(FALSE, c, id)
    \/ \E c \in Callers, data \in OneRestaurant :
          seq.restaurant <= BookingMaxRestaurants /\ create_restaurant(FALSE, c, data)
    \/ \E c \in Callers, id \in 1..BookingMaxRestaurants : delete_restaurant(FALSE, c, id)
    \/ \E c \in Callers, data \in ReservationRequests(BookingMaxRestaurants) :
          seq.reservation <= BookingMaxReservations /\ create_reservation(c, data)
    \/ \E c \in Callers, id \in 1..BookingMaxReservations : cancel_reservation(c, id)
    \/ \E c \in Callers, id \in 1..BookingMaxReservations : get_reservation(c, id)
    \/ \E c \in Callers : get_user_reservations(c)
    \/ \E c \in Callers, id \in 1..BookingMaxRestaurants : get_restaurant_reservations(c, id)

SpecBooking == Init /\ [][NextBooking]_vars

(***************************************************************************)
(* Reservations: the status life cycle, cancellation and its permissions.  *)
(***************************************************************************)
(* C6: a reservation enters the store as 'pending'; a stored reservation
   keeps its status or moves from 'pending' to 'cancelled', so a cancelled
   one stays cancelled. *)
C6_PendingThenCancelled ==
    [][/\ \A v \in DOMAIN reservations' \ DOMAIN reservations :
             reservations'[v].status = "pending"
       /\ \A v \in DOMAIN reservations \cap DOMAIN reservations' :
             \/ reservations'[v].status = reservations[v].status
             \/ /\ reservations[v].status = "pending"
                /\ reservations'[v].status = "cancelled"]_vars

(* C6 witness: a request has been served on a cancelled reservation after
   its cancellation, by a caller who cancels again *)
C6_Witness ==
    /\ resp.op = "cancel_reservation" /\ resp.status = 200
    /\ resp.body.rows_updated = 0
    /\ \E v \in DOMAIN reservations : reservations[v].status = "pending"
    /\ reservations[resp.id].status = "cancelled"

(* C7: a successful cancel_reservation on a reservation that is already
   cancelled leaves the whole reservations table as it was. *)
C7_SecondCancelChangesNothing ==
    [][(/\ resp'.op = "cancel_reservation" /\ resp'.status = 200
        /\ resp'.id \in DOMAIN reservations
        /\ reservations[resp'.id].status = "cancelled")
          => reservations' = reservations]_vars

(* C7 witness: the second cancel has been answered 200 (its commit had
   nothing to update) *)
C7_Witness ==
    /\ resp.op = "cancel_reservation" /\ resp.status = 200
    /\ resp.body.rows_updated = 0
    /\ reservations[resp.id].status = "cancelled"
    /\ reservations[resp.id].updated_at = 1

(* the reservation's user, the admin of its restaurant, or a role admin *)
MayCancel(caller, id) ==
    \/ reservations[id].user_id = caller
    \/ restaurants[reservations[id].restaurant_id].admin_id = caller
    \/ users[caller].role = "admin"

(* C8: cancel_reservation changes the reservation only for its user, the
   admin of its restaurant or a role admin; every other caller with a user
   account is answered 403 'Permission denied' and nothing changes; no caller
   at all changes a reservation without being one of the three. *)
C8_CancelOnlyByEntitled ==
    [][\A c \in Callers : \A id \in DOMAIN reservations :
          cancel_reservation(c, id) =>
             /\ (c \in DOMAIN users /\ ~MayCancel(c, id)) =>
                   /\ resp'.status = 403 /\ resp'.msg = "Permission denied"
                   /\ reservations' = reservations
             /\ (c \in DOMAIN users /\ MayCancel(c, id)) =>
                   /\ resp'.status = 200
                   /\ reservations'[id].status = "cancelled"
             /\ reservations' # reservations => (c \in DOMAIN users /\ MayCancel(c, id))]_vars

(* C8 witness: a client who neither made the reservation nor runs the
   restaurant has been refused, and the reservation is still pending *)
C8_Witness ==
    /\ resp.op = "cancel_reservation" /\ resp.status = 403
    /\ resp.caller \in DOMAIN users
    /\ reservations[resp.id].status = "pending"
    /\ reservations[resp.id].user_id # resp.caller

(* C9: cancel_reservation removes no row; a cancelled reservation is
   returned by get_reservation to its user and is listed, as 'cancelled', by
   get_user_reservations for its user and by get_restaurant_reservations for
   its restaurant. *)
C9_CancelledRowIsKept ==
    [][/\ resp'.op = "cancel_reservation" =>
             /\ DOMAIN reservations' = DOMAIN reservations
             /\ resp'.status = 200 => reservations'[resp'.id].status = "cancelled"
       /\ \A v \in DOMAIN reservations' :
             reservations'[v].status = "cancelled" =>
                /\ (/\ resp'.op = "get_reservation" /\ resp'.id = v
                    /\ resp'.caller = reservations'[v].user_id) =>
                      /\ resp'.status = 200
                      /\ resp'.body.id = v /\ resp'.body.status = "cancelled"
                /\ (/\ resp'.op = "get_user_reservations"
                    /\ resp'.caller = reservations'[v].user_id) =>
                      \E e \in resp'.body : e.id = v /\ e.status = "cancelled"
                /\ (/\ resp'.op = "get_restaurant_reservations" /\ resp'.status = 200
                    /\ resp'.id = reservations'[v].restaurant_id) =>
                      \E e \in resp'.body : e.id = v /\ e.status = "cancelled"]_vars

(* C9 witness: the restaurant's listing shows a reservation that was
   cancelled *)
C9_Witness ==
    /\ resp.op = "get_restaurant_reservations" /\ resp.status = 200
    /\ \E e \in resp.body : e.status = "cancelled" /\ e.updated_at = 1

(***************************************************************************)
(* The administration of users, restaurants and menus (PUT and DELETE).    *)
(***************************************************************************)
T_1000 == <<"1", "0", ":", "0", "0">>
T_2200 == <<"2", "2", ":", "0", "0">>

(* PUT bodies: every key is present in some body and absent from another;
   two bodies of update_restaurant are rejected after the name is assigned *)
RestaurantUpdates ==
    {[name |-> "n2", description |-> "d2"],
     [address |-> "a2", phone |-> "p2", open_time |-> T_900, close_time |-> T_2200],
     [name |-> "n3", open_time |-> T_2500],
     [name |-> "n3", open_time |-> T_1000, close_time |-> T_2500]}

MenuUpdates ==
    {[price |-> 15],
     [name |-> "m2", description |-> "d2", category |-> "c2"]}

(* a user takes an address that no registration uses, alone or together with
   the name of the first user *)
UserUpdates(maxUser) ==
    {[email |-> UserMail(maxUser + 1)],
     [email |-> UserMail(maxUser + 1), username |-> UserName(1)]}

(* a request is served by the worker that holds db_session or by another *)
NextAdmin ==
    \/ \E w \in BOOLEAN, data \in FreshUsers : seq.user <= AdminMaxUsers /\ register(w, data)
    \/ \E w \in BOOLEAN, c \in Callers, id \in Callers, data \in UserUpdates(AdminMaxUsers) :
          update_user(w, c, id, data)
    \/ \E w \in BOOLEAN, c \in Callers, id \in Callers : delete_user(w, c, id)
    \/ \E w \in BOOLEAN, c \in Callers, data \in OneRestaurant :
          seq.restaurant <= AdminMaxRestaurants /\ create_restaurant(w, c, data)
    \/ \E w \in BOOLEAN, c \in Callers, id \in 1..AdminMaxRestaurants, data \in RestaurantUpdates :
          update_restaurant(w, c, id, data)
    \/ \E w \in BOOLEAN, c \in Callers, id \in 1..AdminMaxRestaurants : delete_restaurant(w, c, id)
    \/ \E w \in BOOLEAN, c \in Callers, data \in PlainMenus(AdminMaxRestaurants) :
          seq.menu <= AdminMaxMenus /\ create_menu(w, c, data)
    \/ \E w \in BOOLEAN, c \in Callers, id \in 1..AdminMaxMenus, data \in MenuUpdates :
          update_menu(w, c, id, data)
    \/ \E w \in BOOLEAN, c \in Callers, id \in 1..AdminMaxMenus : delete_menu(w, c, id)
    \/ thread_exit

SpecAdmin == Init /\ [][NextAdmin]_vars

(***************************************************************************)
(* Administration: what a PUT changes.                                     *)
(***************************************************************************)
(* the value a body supplies for a key; a time is supplied as HH:MM *)
Supplied(data, k) ==
    IF k \in {"open_time", "close_time"} THEN ParseTime(data[k]).v ELSE data[k]

PartialUpdate(before, after, data) ==
    \A k \in DOMAIN before :
       after[k] = IF Has(data, k) THEN Supplied(data, k) ELSE before[k]

(* C10: when update_restaurant, update_menu or update_user answers 200, every
   stored field of the addressed row whose key the body does not hold keeps
   the value it had before the request, and every field whose key the body
   holds has the supplied value. *)
C10_PartialUpdate ==
    [][/\ \A w \in BOOLEAN, c \in Callers, id \in DOMAIN restaurants, data \in RestaurantUpdates :
             (update_restaurant(w, c, id, data) /\ resp'.status = 200)
                => PartialUpdate(restaurants[id], restaurants'[id], data)
       /\ \A w \in BOOLEAN, c \in Callers, id \in DOMAIN menus, data \in MenuUpdates :
             (update_menu(w, c, id, data) /\ resp'.status = 200)
                => PartialUpdate(menus[id], menus'[id], data)
       /\ \A w \in BOOLEAN, c \in Callers, id \in DOMAIN users, data \in UserUpdates(AdminMaxUsers) :
             (update_user(w, c, id, data) /\ resp'.status = 200)
                => PartialUpdate(users[id], users'[id], data)]_vars

(***************************************************************************)
(* The whole API on a small instance: who may do what, and what a request  *)
(* is answered.  Every request is served with a session that holds         *)
(* nothing, as under app/app.py, whose sessions end with their request.    *)
(***************************************************************************)
AccessMaxUsers == 2
AccessMaxRestaurants == 1
AccessMaxMenus == 1
AccessMaxOrders == 1
AccessMaxReservations == 1

Without(body, keys) == Restrict(body, DOMAIN body \ keys)

(* the bodies that lack one or two of the required fields *)
Incomplete(body, fields) ==
    {Without(body, {fields[i], fields[j]}) : i \in 1..Len(fields), j \in 1..Len(fields)}

OneMenu == [name |-> "m1", price |-> 10, category |-> "c1", restaurant_id |-> 1]

OneOrder == [pickup_time |-> DT_valid, restaurant_id |-> 1,
             items |-> JsonList(<<[menu_id |-> 1, quantity |-> 2]>>)]

OneReservation == [date |-> D_20250325, time |-> T_900, guests |-> 4, restaurant_id |-> 1]

RestaurantBodies ==
    OneRestaurant \cup UNION {Incomplete(b, <<"name", "address", "phone", "open_time", "close_time">>) :
                                b \in OneRestaurant}

MenuBodies == {OneMenu} \cup Incomplete(OneMenu, <<"name", "price", "category", "restaurant_id">>)

OrderBodies == {OneOrder} \cup Incomplete(OneOrder, <<"pickup_time", "restaurant_id", "items">>)

ReservationBodies ==
    {OneReservation} \cup Incomplete(OneReservation, <<"date", "time", "guests", "restaurant_id">>)

NextAccess ==
    \/ \E data \in FreshUsers : seq.user <= AccessMaxUsers /\ register(FALSE, data)
    \/ \E c \in Callers, id \in 1..AccessMaxUsers : update_user(FALSE, c, id, [email |-> UserMail(0)])
    \/ \E c \in Callers, id \in 1..AccessMaxUsers : delete_user(FALSE, c, id)
    \/ \E c \in Callers, data \in RestaurantBodies :
          seq.restaurant <= AccessMaxRestaurants /\ create_restaurant(FALSE, c, data)
    \/ \E c \in Callers, id \in 1..AccessMaxRestaurants :
          update_restaurant(FALSE, c, id, [name |-> "n2"])
    \/ \E c \in Callers, id \in 1..AccessMaxRestaurants : delete_restaurant(FALSE, c, id)
    \/ \E c \in Callers, data \in MenuBodies : seq.menu <= AccessMaxMenus /\ create_menu(FALSE, c, data)
    \/ \E c \in Callers, id \in 1..AccessMaxMenus : update_menu(FALSE, c, id, [price |-> 15])
    \/ \E c \in Callers, id \in 1..AccessMaxMenus : delete_menu(FALSE, c, id)
    \/ \E c \in Callers, data \in OrderBodies : seq.order <= AccessMaxOrders /\ create_order(c, data)
    \/ create_order_save
    \/ create_order_item
    \/ \E c \in Callers, id \in 1..AccessMaxOrders, data \in StatusUpdates :
          update_order_status(c, id, data)
    \/ \E c \in Callers, id \in 1..AccessMaxOrders : get_order(c, id)
    \/ \E c \in Callers, id \in 1..AccessMaxRestaurants : get_restaurant_orders(c, id)
    \/ \E c \in Callers, data \in ReservationBodies :
          seq.reservation <= AccessMaxReservations /\ create_reservation(c, data)
    \/ \E c \in Callers, id \in 1..AccessMaxReservations : cancel_reservation(c, id)
    \/ \E c \in Callers, id \in 1..AccessMaxReservations : get_reservation(c, id)
    \/ \E c \in Callers, id \in 1..AccessMaxRestaurants : get_restaurant_reservations(c, id)

SpecAccess == Init /\ [][NextAccess]_vars

(***************************************************************************)
(* Access: existence, permissions and disclosure.                          *)
(***************************************************************************)
(* the requests that address one row by the id in their path *)
ByIdOps == {"update_user", "delete_user", "update_restaurant", "delete_restaurant",
            "update_menu", "delete_menu", "get_order", "update_order_status",
            "get_reservation", "cancel_reservation"}

(* the ids of the table that a request by id looks its row up in *)
Addressed(op) ==
    CASE op \in {"update_user", "delete_user"} -> DOMAIN users
      [] op \in {"update_restaurant", "delete_restaurant"} -> DOMAIN restaurants
      [] op \in {"update_menu", "delete_menu"} -> DOMAIN menus
      [] op \in {"get_order", "update_order_status"} -> DOMAIN orders
      [] op \in {"get_reservation", "cancel_reservation"} -> DOMAIN reservations

(* C11: a PUT, DELETE or GET by id whose row does not exist is answered 404,
   whoever the caller is and so also for a caller who would be refused if the
   row existed; it is never answered 403, and it writes nothing. *)
C11_ExistenceBeforePermission ==
    [][(resp'.op \in ByIdOps /\ resp'.id \notin Addressed(resp'.op)) =>
          /\ resp'.status = 404
          /\ UNCHANGED tables]_vars

(* C11 witness: a client has asked to delete a user that does not exist and
   that is not the client, and was answered 404 *)
C11_Witness ==
    /\ resp.op = "delete_user" /\ resp.status = 404
    /\ resp.caller \in DOMAIN users /\ users[resp.caller].role = "client"
    /\ resp.caller # resp.id

(***************************************************************************)
(* The accounts: registration, update and deletion of users, with one      *)
(* register or update_user request in flight between its lookups and its   *)
(* commit.                                                                 *)
(***************************************************************************)
AccountsMaxUsers == 2

(* registrations: a new name with a new address, the name or the address of
   the first registration, or both *)
RegisterBodies ==
    FreshUsers \cup {[username |-> UserName(1), email |-> UserMail(seq.user)],
                     [username |-> UserName(seq.user), email |-> UserMail(1)],
                     [username |-> UserName(1), email |-> UserMail(1), role |-> "admin"]}

(* a user takes the address of the first registration, the name that the
   next registration asks for, or the address that it asks for *)
AccountUpdates ==
    {[email |-> UserMail(1)],
     [username |-> UserName(seq.user)],
     [email |-> UserMail(seq.user)]}

NextAccounts ==
    \/ \E data \in RegisterBodies : seq.user <= AccountsMaxUsers /\ register(FALSE, data)
    \/ \E data \in RegisterBodies : seq.user <= AccountsMaxUsers /\ register_check(data)
    \/ seq.user <= AccountsMaxUsers /\ register_save
    \/ \E c \in Callers, id \in Callers, data \in AccountUpdates : update_user(FALSE, c, id, data)
    \/ \E c \in Callers, id \in Callers, data \in AccountUpdates : update_user_check(c, id, data)
    \/ update_user_save
    \/ \E c \in Callers, id \in Callers : delete_user(FALSE, c, id)

SpecAccounts == Init /\ [][NextAccounts]_vars

(***************************************************************************)
(* Accounts: names and addresses.                                          *)
(***************************************************************************)
(* C12: register with the username of a stored user is answered 400
   'Username already exists'; with a username that no stored user has and the
   e-mail address of a stored user it is answered 400 'Email already exists';
   neither creates a user. *)
C12_RegisterDuplicates ==
    [][\A data \in RegisterBodies :
          register(FALSE, data) =>
             LET name == \E u \in DOMAIN users : users[u].username = data["username"]
                 mail == \E u \in DOMAIN users : users[u].email = data["email"]
             IN  /\ name => /\ resp'.status = 400 /\ resp'.msg = "Username already exists"
                            /\ users' = users /\ seq' = seq
                 /\ (~name /\ mail) => /\ resp'.status = 400 /\ resp'.msg = "Email already exists"
                                       /\ users' = users /\ seq' = seq]_vars

(* C12 witness: a registration under a new name was refused for its address,
   which a stored user has *)
C12_Witness ==
    /\ resp.op = "register" /\ resp.status = 400 /\ resp.msg = "Email already exists"
    /\ \E u \in DOMAIN users : users[u].email = UserMail(1)
    /\ \A u \in DOMAIN users : users[u].username # UserName(seq.user)

(* C13: in every reachable state no two stored users have the same username
   and no two have the same e-mail address, also when another request commits
   between the lookups and the commit of a register or update_user. *)
C13_UniqueNamesAndAddresses ==
    \A u, v \in DOMAIN users :
       u # v => (users[u].username # users[v].username /\ users[u].email # users[v].email)

(* C13 witness: a registration passed its lookups, another request committed
   its username or its address, and its INSERT was refused *)
C13_Witness ==
    /\ resp.op = "register" /\ resp.status = 500
    /\ \E u \in DOMAIN users : users[u].username = UserName(seq.user - 1)
                                 \/ users[u].email = UserMail(seq.user - 1)

(* C14: update_user and delete_user change or remove a user only when the
   caller is that user or has role admin; a caller with an account who is
   neither and addresses a stored user is answered 403 'Permission denied',
   and no user changes. *)
C14_UserWritesOnlyByEntitled ==
    [][resp'.op \in {"update_user", "delete_user"} =>
          /\ (/\ resp'.id \in DOMAIN users /\ resp'.caller \in DOMAIN users
              /\ resp'.caller # resp'.id /\ users[resp'.caller].role # "admin") =>
                /\ resp'.status = 403 /\ resp'.msg = "Permission denied"
                /\ users' = users
          /\ \A id \in DOMAIN users :
                (id \notin DOMAIN users' \/ users'[id] # users[id]) =>
                   /\ resp'.id = id /\ resp'.status = 200
                   /\ resp'.caller \in DOMAIN users
                   /\ (resp'.caller = id \/ users[resp'.caller].role = "admin")]_vars

(* C14 witness: a client has asked to change another stored user and was
   answered 403 *)
C14_Witness ==
    /\ resp.op = "update_user" /\ resp.status = 403
    /\ resp.id \in DOMAIN users /\ resp.caller \in DOMAIN users
    /\ resp.caller # resp.id /\ users[resp.caller].role = "client"

(* C15: create_restaurant answers a caller whose role is not admin with 403
   'Admin privileges required' and creates nothing; it creates a restaurant
   only for a caller with role admin, and the restaurant it creates has the
   caller's id as its admin_id. *)
C15_RestaurantsByAdminsOnly ==
    [][resp'.op = "create_restaurant" =>
          /\ (resp'.caller \in DOMAIN users /\ users[resp'.caller].role # "admin") =>
                /\ resp'.status = 403 /\ resp'.msg = "Admin privileges required"
                /\ restaurants' = restaurants
          /\ (resp'.status = 201 \/ restaurants' # restaurants) =>
                /\ resp'.status = 201
                /\ resp'.caller \in DOMAIN users /\ users[resp'.caller].role = "admin"
                /\ resp'.id \notin DOMAIN restaurants
                /\ restaurants' = Insert(restaurants, resp'.id, restaurants'[resp'.id])
                /\ restaurants'[resp'.id].admin_id = resp'.caller]_vars

(* C15 witness: the second user, an admin, has created a restaurant, which is
   stored under that user's id; the first user is a client *)
C15_Witness ==
    /\ resp.op = "create_restaurant" /\ resp.status = 201
    /\ resp.caller = 2
    /\ restaurants[resp.id].admin_id = 2
    /\ 1 \in DOMAIN users /\ users[1].role = "client"

(* the admin of the restaurant or a user with role admin *)
MayWrite(caller, restaurant_id) ==
    \/ restaurants[restaurant_id].admin_id = caller
    \/ users[caller].role = "admin"

(* a step that serves a write on a restaurant or its menus: a caller with an
   account who may not write is answered 403 and nothing changes, and
   whatever changes is changed for a caller who may write *)
WriteRule(caller, restaurant_id) ==
    /\ (caller \in DOMAIN users /\ ~MayWrite(caller, restaurant_id)) =>
          /\ resp'.status = 403 /\ resp'.msg = "Permission denied"
          /\ restaurants' = restaurants /\ menus' = menus
    /\ (restaurants' # restaurants \/ menus' # menus) =>
          (caller \in DOMAIN users /\ MayWrite(caller, restaurant_id))

(* C16 as stated: each of the five writes, addressed to a stored restaurant
   or to a menu of one, changes the restaurant and its menus only for the
   restaurant's admin or a caller with role admin, and answers every other
   caller with an account 403 'Permission denied', changing nothing. *)
C16_AnyOtherCallerGets403 ==
    [][/\ (resp'.op \in {"update_restaurant", "delete_restaurant"} /\ resp'.id \in DOMAIN restaurants)
             => WriteRule(resp'.caller, resp'.id)
       /\ (resp'.op \in {"update_menu", "delete_menu"} /\ resp'.id \in DOMAIN menus)
             => WriteRule(resp'.caller, menus[resp'.id].restaurant_id)
       /\ resp'.op = "create_menu" =>
             \A c \in Callers, data \in MenuBodies :
                (/\ create_menu(FALSE, c, data)
                 /\ Has(data, "restaurant_id")
                 /\ data["restaurant_id"] \in DOMAIN restaurants)
                   => WriteRule(c, data["restaurant_id"])]_vars

(* C16 amended: as stated for update_restaurant, delete_restaurant,
   update_menu, delete_menu and for a create_menu that has its four required
   fields; a create_menu that lacks one is answered 400 whoever the caller is,
   and changes nothing. *)
C16_RestaurantWritesOnlyByEntitled ==
    [][/\ (resp'.op \in {"update_restaurant", "delete_restaurant"} /\ resp'.id \in DOMAIN restaurants)
             => WriteRule(resp'.caller, resp'.id)
       /\ (resp'.op \in {"update_menu", "delete_menu"} /\ resp'.id \in DOMAIN menus)
             => WriteRule(resp'.caller, menus[resp'.id].restaurant_id)
       /\ resp'.op = "create_menu" =>
             \A c \in Callers, data \in MenuBodies :
                create_menu(FALSE, c, data) =>
                   IF FirstMissing(<<"name", "price", "category", "restaurant_id">>, data) # ""
                   THEN /\ resp'.status = 400
                        /\ restaurants' = restaurants /\ menus' = menus
                   ELSE data["restaurant_id"] \in DOMAIN restaurants
                           => WriteRule(c, data["restaurant_id"])]_vars

(* C16 witness: a client who does not run the restaurant has asked to delete
   it and was answered 403; the restaurant is stored, with nothing that
   refers to it *)
C16_Witness ==
    /\ resp.op = "delete_restaurant" /\ resp.status = 403
    /\ resp.caller \in DOMAIN users /\ users[resp.caller].role = "client"
    /\ resp.id \in DOMAIN restaurants /\ ~RestaurantReferenced(resp.id)

(* C17: update_order_status changes the status of a stored order only for
   the admin of the order's restaurant or a caller with role admin; every
   other caller with an account, the user who placed the order included, is
   answered 403 'Permission denied' and the order keeps its status. *)
C17_OrderStatusOnlyByEntitled ==
    [][(resp'.op = "update_order_status" /\ resp'.id \in DOMAIN orders) =>
          LET c == resp'.caller
              r == orders[resp'.id].restaurant_id
          IN  /\ (c \in DOMAIN users /\ ~MayWrite(c, r)) =>
                    /\ resp'.status = 403 /\ resp'.msg = "Permission denied"
                    /\ orders' = orders
              /\ orders' # orders =>
                    /\ c \in DOMAIN users /\ MayWrite(c, r)
                    /\ resp'.status = 200
                    /\ orders' = [orders EXCEPT ![resp'.id].status = orders'[resp'.id].status]]_vars

(* C17 witness: the client who placed the order has asked for a new status
   and was answered 403; the order is still pending *)
C17_Witness ==
    /\ resp.op = "update_order_status" /\ resp.status = 403
    /\ resp.id \in DOMAIN orders
    /\ orders[resp.id].user_id = resp.caller
    /\ resp.caller \in DOMAIN users /\ users[resp.caller].role = "client"
    /\ orders[resp.id].status = "pending"

(* a read is answered 200 only to a caller with an account for whom
   entitled holds; any other caller with an account is answered 403
   'Permission denied', without data *)
ReadRule(entitled) ==
    /\ (resp'.caller \in DOMAIN users /\ ~entitled) =>
          /\ resp'.status = 403 /\ resp'.msg = "Permission denied"
          /\ resp'.body = NoBody
    /\ resp'.status = 200 => (resp'.caller \in DOMAIN users /\ entitled)

(* C18: get_order and get_reservation answer 200 only to the record's user,
   the admin of its restaurant or a caller with role admin;
   get_restaurant_orders and get_restaurant_reservations answer 200 only to
   the restaurant's admin or a caller with role admin; every other caller
   with an account is answered 403 'Permission denied'. *)
C18_DisclosureOnlyToEntitled ==
    [][/\ (resp'.op = "get_order" /\ resp'.id \in DOMAIN orders) =>
             ReadRule(\/ orders[resp'.id].user_id = resp'.caller
                      \/ MayWrite(resp'.caller, orders[resp'.id].restaurant_id))
       /\ (resp'.op = "get_reservation" /\ resp'.id \in DOMAIN reservations) =>
             ReadRule(\/ reservations[resp'.id].user_id = resp'.caller
                      \/ MayWrite(resp'.caller, reservations[resp'.id].restaurant_id))
       /\ (/\ resp'.op \in {"get_restaurant_orders", "get_restaurant_reservations"}
           /\ resp'.id \in DOMAIN restaurants) =>
             ReadRule(MayWrite(resp'.caller, resp'.id))]_vars

(* C18 witness: a client who neither placed the order nor runs its
   restaurant has asked for the order and was answered 403 *)
C18_Witness ==
    /\ resp.op = "get_order" /\ resp.status = 403
    /\ resp.id \in DOMAIN orders
    /\ resp.caller \in DOMAIN users /\ users[resp.caller].role = "client"
    /\ orders[resp.id].user_id # resp.caller

(***************************************************************************)
(* Create requests that lack required fields.                              *)
(***************************************************************************)
(* the create requests alone, with complete and incomplete bodies *)
NextCreate ==
    \/ \E data \in FreshUsers : seq.user <= AccessMaxUsers /\ register(FALSE, data)
    \/ \E c \in Callers, data \in RestaurantBodies :
          seq.restaurant <= AccessMaxRestaurants /\ create_restaurant(FALSE, c, data)
    \/ \E c \in Callers, data \in MenuBodies : seq.menu <= AccessMaxMenus /\ create_menu(FALSE, c, data)
    \/ \E c \in Callers, data \in OrderBodies : seq.order <= AccessMaxOrders /\ create_order(c, data)
    \/ create_order_save
    \/ create_order_item
    \/ \E c \in Callers, data \in ReservationBodies :
          seq.reservation <= AccessMaxReservations /\ create_reservation(c, data)

SpecCreate == Init /\ [][NextCreate]_vars

Lacks(fields, data) == \E i \in 1..Len(fields) : ~Has(data, fields[i])

(* the request is answered 400 with the first of its missing fields in the
   order of fields, and nothing is written *)
MissingRule(fields, data) ==
    /\ resp'.status = 400 /\ resp'.msg = "Missing required field: "
    /\ \E i \in 1..Len(fields) :
          /\ ~Has(data, fields[i])
          /\ \A j \in 1..(i - 1) : Has(data, fields[j])
          /\ resp'.body = fields[i]
    /\ UNCHANGED <<tables, seq, co>>

(* create_order, create_reservation and create_menu that lack a field *)
MissingRuleOfThree ==
    /\ resp'.op = "create_order" =>
          \A c \in {resp'.caller}, data \in OrderBodies :
             (create_order(c, data) /\ Lacks(<<"pickup_time", "restaurant_id", "items">>, data))
                => MissingRule(<<"pickup_time", "restaurant_id", "items">>, data)
    /\ resp'.op = "create_reservation" =>
          \A c \in {resp'.caller}, data \in ReservationBodies :
             (/\ create_reservation(c, data)
              /\ Lacks(<<"date", "time", "guests", "restaurant_id">>, data))
                => MissingRule(<<"date", "time", "guests", "restaurant_id">>, data)
    /\ resp'.op = "create_menu" =>
          \A c \in {resp'.caller}, data \in MenuBodies :
             (/\ create_menu(FALSE, c, data)
              /\ Lacks(<<"name", "price", "category", "restaurant_id">>, data))
                => MissingRule(<<"name", "price", "category", "restaurant_id">>, data)

(* C19 as stated: a create_order, create_reservation, create_menu or
   create_restaurant request that lacks required fields is answered 400 with
   the first missing field in the declared order, and creates nothing. *)
C19_MissingFieldAlways400 ==
    [][/\ MissingRuleOfThree
       /\ resp'.op = "create_restaurant" =>
             \A c \in {resp'.caller}, data \in RestaurantBodies :
                (/\ create_restaurant(FALSE, c, data) /\ c \in DOMAIN users
                 /\ Lacks(<<"name", "address", "phone", "open_time", "close_time">>, data))
                   => MissingRule(<<"name", "address", "phone", "open_time", "close_time">>, data)]_vars

(* C19 amended: as stated for create_order, create_reservation and
   create_menu, and for create_restaurant when the caller has role admin; a
   caller of create_restaurant with another role is answered 403 'Admin
   privileges required' whatever the body lacks, and nothing is created. *)
C19_MissingFieldNamed ==
    [][/\ MissingRuleOfThree
       /\ resp'.op = "create_restaurant" =>
             \A c \in {resp'.caller}, data \in RestaurantBodies :
                (/\ create_restaurant(FALSE, c, data) /\ c \in DOMAIN users
                 /\ Lacks(<<"name", "address", "phone", "open_time", "close_time">>, data))
                   => IF users[c].role = "admin"
                      THEN MissingRule(<<"name", "address", "phone", "open_time", "close_time">>, data)
                      ELSE /\ resp'.status = 403 /\ resp'.msg = "Admin privileges required"
                           /\ UNCHANGED <<tables, seq, co>>]_vars

(* C19 witness: an admin has sent a create_restaurant that lacks a field after
   the first, and the answer names it *)
C19_Witness ==
    /\ resp.op = "create_restaurant" /\ resp.status = 400
    /\ resp.msg = "Missing required field: " /\ resp.body = "phone"
    /\ users[resp.caller].role = "admin"

(***************************************************************************)
(* Reservations with a date or a time that strptime rejects.               *)
(***************************************************************************)
(* C20: a create_reservation whose date is not a %Y-%m-%d date or whose time
   is not a %H:%M time, with all required fields and an existing restaurant,
   is answered 400 with a message that names the invalid format, and no
   reservation is created. *)
C20_BadDateOrTimeIs400 ==
    [][resp'.op = "create_reservation" =>
          \A c \in {resp'.caller}, data \in ReservationRequests(BookingMaxRestaurants) :
             (/\ create_reservation(c, data)
              /\ ~Lacks(<<"date", "time", "guests", "restaurant_id">>, data)
              /\ data["restaurant_id"] \in DOMAIN restaurants
              /\ ~ParseDate(data["date"]).ok \/ ~ParseTime(data["time"]).ok)
                => /\ resp'.status = 400
                   /\ resp'.msg \in {"Invalid date format", "Invalid time format"}
                   /\ UNCHANGED <<reservations, seq>>]_vars

(***************************************************************************)
(* The status of an order: one restaurant with one menu, one order, and    *)
(* update_order_status with every value of the list, a value outside it    *)
(* and no value.                                                           *)
(***************************************************************************)
AllStatusUpdates ==
    {[status |-> s] : s \in {"pending", "confirmed", "ready", "delivered", "cancelled"}}
       \cup {<<>>}

NextStatus ==
    \/ \E data \in FreshUsers : seq.user <= AccessMaxUsers /\ register(FALSE, data)
    \/ \E c \in Callers, data \in OneRestaurant :
          seq.restaurant <= AccessMaxRestaurants /\ create_restaurant(FALSE, c, data)
    \/ \E c \in Callers : seq.menu <= AccessMaxMenus /\ create_menu(FALSE, c, OneMenu)
    \/ \E c \in Callers : seq.order <= AccessMaxOrders /\ create_order(c, OneOrder)
    \/ create_order_save
    \/ create_order_item
    \/ \E c \in Callers, id \in 1..AccessMaxOrders, data \in AllStatusUpdates :
          update_order_status(c, id, data)

SpecStatus == Init /\ [][NextStatus]_vars

(* the caller has an account and passes the check of lines 246-247 for the
   stored order id *)
MayUpdateStatus(caller, id) ==
    /\ id \in DOMAIN orders /\ caller \in DOMAIN users
    /\ \/ restaurants[orders[id].restaurant_id].admin_id = caller
       \/ users[caller].role = "admin"

(* C21: every stored order has status pending, confirmed, ready or delivered:
   a new order row has status pending, and an update_order_status that passes
   the existence and permission checks with any other value is answered 400
   'Invalid status'; no update_order_status that is refused changes an order. *)
C21_OrderStatusInList ==
    [][/\ \A o \in DOMAIN orders' :
             orders'[o].status \in {"pending", "confirmed", "ready", "delivered"}
       /\ \A o \in DOMAIN orders' \ DOMAIN orders : orders'[o].status = "pending"
       /\ resp'.op = "update_order_status" =>
             /\ resp'.status # 200 => orders' = orders
             /\ \A data \in AllStatusUpdates :
                   (/\ update_order_status(resp'.caller, resp'.id, data)
                    /\ MayUpdateStatus(resp'.caller, resp'.id)
                    /\ Has(data, "status")
                    /\ data["status"] \notin {"pending", "confirmed", "ready", "delivered"})
                      => /\ resp'.status = 400 /\ resp'.msg = "Invalid status"
                         /\ orders' = orders]_vars

(* C21 witness: an order that was moved away from pending is stored and an
   update_order_status of an entitled caller has been answered 'Invalid
   status' *)
C21_Witness ==
    /\ resp.op = "update_order_status" /\ resp.status = 400 /\ resp.msg = "Invalid status"
    /\ MayUpdateStatus(resp.caller, resp.id)
    /\ orders[resp.id].status = "ready"

(* C29: an update_order_status of an entitled caller with one of the four
   statuses is answered 200 and stores that status, whatever the status of the
   order was: a later one, an earlier one or the same. *)
C29_AnyStatusToAnyStatus ==
    [][resp'.op = "update_order_status" =>
          \A data \in AllStatusUpdates :
             (/\ update_order_status(resp'.caller, resp'.id, data)
              /\ MayUpdateStatus(resp'.caller, resp'.id)
              /\ Has(data, "status")
              /\ data["status"] \in {"pending", "confirmed", "ready", "delivered"})
                => /\ resp'.status = 200
                   /\ orders' = [orders EXCEPT ![resp'.id].status = data["status"]]]_vars

(* C29 witness: an update_order_status has stored pending, the status an order
   starts with, so the order was pending or at a later status before *)
C29_Witness ==
    /\ resp.op = "update_order_status" /\ resp.status = 200
    /\ orders[resp.id].status = "pending"

(***************************************************************************)
(* The roles of the users: register with a role, without one and with a    *)
(* role outside the list, and the requests that write a user row.          *)
(***************************************************************************)
RolesMaxUsers == 3

RoleBodies ==
    FreshUsers
       \cup {[username |-> UserName(seq.user), email |-> UserMail(seq.user)]}
       \cup {[username |-> UserName(seq.user), email |-> UserMail(seq.user), role |-> r] :
                r \in {"invalidrole", "Admin", ""}}
       \cup {[username |-> UserName(1), email |-> UserMail(seq.user), role |-> "invalidrole"]}

RoleUpdates == {[email |-> UserMail(0)], [username |-> UserName(0)]}

NextRoles ==
    \/ \E data \in RoleBodies : seq.user <= RolesMaxUsers /\ register(FALSE, data)
    \/ \E c \in Callers, id \in 1..RolesMaxUsers, data \in RoleUpdates :
          update_user(FALSE, c, id, data)
    \/ \E c \in Callers, id \in 1..RolesMaxUsers : delete_user(FALSE, c, id)

SpecRoles == Init /\ [][NextRoles]_vars

(* no stored user has the username or the email of the request *)
NamesFree(data) ==
    \A u \in DOMAIN users :
       users[u].username # data["username"] /\ users[u].email # data["email"]

(* C22: every stored user has role client or admin: a register whose username
   and email are free stores role client when the request has no role, stores
   the role of the request when it is client or admin, and is otherwise
   answered 400 'Invalid role' and stores no user. *)
C22_RoleIsClientOrAdmin ==
    [][/\ \A u \in DOMAIN users' : users'[u].role \in {"client", "admin"}
       /\ resp'.op = "register" =>
             \A data \in RoleBodies :
                (register(FALSE, data) /\ NamesFree(data)) =>
                   IF Has(data, "role") /\ data["role"] \notin {"client", "admin"}
                   THEN /\ resp'.status = 400 /\ resp'.msg = "Invalid role"
                        /\ users' = users /\ seq' = seq
                   ELSE /\ resp'.status = 201
                        /\ DOMAIN users' = DOMAIN users \cup {seq.user}
                        /\ users'[seq.user].role =
                              IF Has(data, "role") THEN data["role"] ELSE "client"]_vars

(* C22 witness: users are stored and the last register, with a role outside
   the list, was answered 'Invalid role' *)
C22_Witness ==
    /\ resp.op = "register" /\ resp.status = 400 /\ resp.msg = "Invalid role"
    /\ \E u \in DOMAIN users : users[u].role = "client"
    /\ \E u \in DOMAIN users : users[u].role = "admin"

(***************************************************************************)
(* References between the rows, with sessions that outlive their request.  *)
(***************************************************************************)
(* C23: every stored restaurant's admin_id is the id of a stored user. *)
C23_AdminExists ==
    \A r \in DOMAIN restaurants : restaurants[r].admin_id \in DOMAIN users

(* C23 witness: a delete_user for the admin of a stored restaurant has been
   answered, and the restaurant and its admin are stored *)
C23_Witness ==
    /\ resp.op = "delete_user" /\ resp.status = 500
    /\ \E r \in DOMAIN restaurants : restaurants[r].admin_id = resp.id
    /\ resp.id \in DOMAIN users

(* C24: every stored menu's restaurant_id is the id of a stored restaurant. *)
C24_RestaurantExists ==
    \A m \in DOMAIN menus : menus[m].restaurant_id \in DOMAIN restaurants

(* C24 witness: a delete_restaurant for the restaurant of a stored menu has
   been answered, and the menu and its restaurant are stored *)
C24_Witness ==
    /\ resp.op = "delete_restaurant" /\ resp.status = 500
    /\ \E m \in DOMAIN menus : menus[m].restaurant_id = resp.id
    /\ resp.id \in DOMAIN restaurants

(***************************************************************************)
(* A price update between the two loops of create_order.                   *)
(***************************************************************************)
(* the lines of a request, each with the price its menu has now *)
PricedNow(lines) ==
    [i \in 1..Len(lines) |->
        [price |-> menus[lines[i]["menu_id"]].price, quantity |-> lines[i]["quantity"]]]

(* C25: nothing orders create_order and update_menu.  The total of an order
   is computed from the prices the menus have when the request is validated,
   each OrderItem row takes the price its menu has when the row is saved, and
   an update_menu of an entitled caller that arrives in between is served as
   at any other time; so a stored order can have a total that is not the sum
   of price x quantity over its rows. *)
C25_PriceReadTwice ==
    [][/\ (co.pc = "idle" /\ co'.pc = "save_order") =>
             co'.total = SumRows(PricedNow(co'.data["items"].v),
                                 1..Len(co'.data["items"].v))
       /\ (co.pc = "save_order" /\ co'.pc = "save_items") =>
             orders'[co'.oid].total = co.total
       /\ (co.pc = "save_items" /\ order_items' # order_items) =>
             /\ orders' = orders
             /\ \A i \in DOMAIN order_items' \ DOMAIN order_items :
                   /\ order_items'[i].order_id = co.oid
                   /\ order_items'[i].price = menus[order_items'[i].menu_id].price
       /\ (resp'.op = "update_menu" /\ co.pc # "idle") =>
             \A data \in PriceUpdates :
                (/\ update_menu(FALSE, resp'.caller, resp'.id, data)
                 /\ resp'.id \in DOMAIN menus /\ resp'.caller \in DOMAIN users
                 /\ MayWrite(resp'.caller, menus[resp'.id].restaurant_id))
                   => /\ resp'.status = 200
                      /\ menus'[resp'.id].price = data["price"]
                      /\ UNCHANGED co]_vars

(* C25 witness: create_order has answered 201 and the total of the stored
   order is not the sum over its rows *)
C25_Witness ==
    /\ resp.op = "create_order" /\ resp.status = 201
    /\ resp.id \in DOMAIN orders
    /\ orders[resp.id].total # SumRows(order_items, ItemsOf(order_items, resp.id))

(***************************************************************************)
(* The failures of create_order: requests with several faults at once.     *)
(***************************************************************************)
FaultyLines == {[menu_id |-> 1, quantity |-> 1], [menu_id |-> 2, quantity |-> 1], [menu_id |-> 1]}

(* a pickup_time that parses or not, a restaurant that is stored or not, items
   that are a string, an empty list or a list of lines whose menu is of the
   restaurant, of another one or of none; and each such body less one field *)
FaultyOrders ==
    LET full == {[pickup_time |-> t, restaurant_id |-> r, items |-> i] :
                    t \in {DT_valid, DT_invalid},
                    r \in 1..(OrdersMaxRestaurants + 1),
                    i \in {JsonString} \cup {JsonList(q) : q \in SeqsUpTo(FaultyLines, OrdersMaxItems)}}
    IN  full \cup {Without(b, {f}) : b \in full, f \in {"pickup_time", "restaurant_id", "items"}}

NextOrderErrors ==
    \/ \E data \in FreshUsers : seq.user <= OrdersMaxUsers /\ register(FALSE, data)
    \/ \E c \in Callers, data \in OneRestaurant :
          seq.restaurant <= OrdersMaxRestaurants /\ create_restaurant(FALSE, c, data)
    \/ \E c \in Callers, data \in PlainMenus(OrdersMaxRestaurants) :
          seq.menu <= OrdersMaxMenus /\ create_menu(FALSE, c, data)
    \/ \E c \in Callers, data \in FaultyOrders : seq.order <= OrdersMaxOrders /\ create_order(c, data)
    \/ create_order_save
    \/ create_order_item

SpecOrderErrors == Init /\ [][NextOrderErrors]_vars

(* what is wrong with line k of the request, "" when nothing is *)
LineFault(data, k) ==
    LET line == data["items"].v[k]
    IN  IF ~Has(line, "menu_id") \/ ~Has(line, "quantity") THEN "incomplete"
        ELSE IF line["menu_id"] \notin DOMAIN menus THEN "unknown"
        ELSE IF menus[line["menu_id"]].restaurant_id # data["restaurant_id"] THEN "foreign"
        ELSE ""

(* the answer has the given status and message, and the request ends *)
Fails(status, msg) == resp'.status = status /\ resp'.msg = msg /\ UNCHANGED <<tables, seq, co>>

(* C26: create_order answers with the first failure in the order: a missing
   required field (400), an unknown restaurant (404), items that are no list
   or an empty one (400), the first line that is at fault (400 incomplete,
   404 unknown menu, 400 menu of another restaurant), a pickup_time that does
   not parse (400); whatever later faults the request has as well. *)
C26_FirstFailureAnswers ==
    [][(resp'.op = "create_order" /\ co.pc = "idle") =>
          \A data \in FaultyOrders :
             create_order(resp'.caller, data) =>
                IF Lacks(<<"pickup_time", "restaurant_id", "items">>, data)
                THEN Fails(400, "Missing required field: ")
                ELSE IF data["restaurant_id"] \notin DOMAIN restaurants
                THEN Fails(404, "Restaurant not found")
                ELSE IF data["items"].type # "list" \/ data["items"].v = <<>>
                THEN Fails(400, "Order must include at least one item")
                ELSE IF \E k \in 1..Len(data["items"].v) : LineFault(data, k) # ""
                THEN LET k == CHOOSE k \in 1..Len(data["items"].v) :
                                 /\ LineFault(data, k) # ""
                                 /\ \A j \in 1..(k - 1) : LineFault(data, j) = ""
                     IN  CASE LineFault(data, k) = "incomplete" ->
                                 Fails(400, "Each item must have menu_id and quantity")
                           [] LineFault(data, k) = "unknown" ->
                                 Fails(404, "Menu item not found")
                           [] LineFault(data, k) = "foreign" ->
                                 Fails(400, "Menu item does not belong to this restaurant")
                ELSE IF ~ParseDateTime(data["pickup_time"]).ok
                THEN Fails(400, "Invalid pickup_time format. Use YYYY-MM-DD HH:MM")
                ELSE resp'.status = 0 /\ co'.pc = "save_order"]_vars

(* C26 witness: the request named a menu of another restaurant in its first
   line, and was answered 400 for it *)
C26_Witness ==
    /\ resp.op = "create_order" /\ resp.status = 400
    /\ resp.msg = "Menu item does not belong to this restaurant"
    /\ Cardinality(DOMAIN restaurants) = 2

(***************************************************************************)
(* What a rejected PUT leaves behind.                                      *)
(***************************************************************************)
(* C27: a PUT that is rejected leaves the stored row unchanged, also for the
   requests that follow: a stored restaurant changes only on the step of an
   update_restaurant that answers 200 for it, and a stored user only on the
   step of an update_user that answers 200 for it. *)
C27_RejectedPutLeavesNothing ==
    [][/\ \A r \in DOMAIN restaurants \cap DOMAIN restaurants' :
             restaurants'[r] # restaurants[r] =>
                resp'.op = "update_restaurant" /\ resp'.id = r /\ resp'.status = 200
       /\ \A u \in DOMAIN users \cap DOMAIN users' :
             users'[u] # users[u] =>
                resp'.op = "update_user" /\ resp'.id = u /\ resp'.status = 200]_vars

(***************************************************************************)
(* Roles and ownership.                                                    *)
(***************************************************************************)
(* C28: no step changes the role of a stored user; a restaurant is created
   only by a caller with role admin, with that caller as its admin_id, and no
   step changes the admin_id of a stored restaurant; so every stored
   restaurant whose admin is stored is owned by a user with role admin. *)
C28_OwnersAreAdmins ==
    [][/\ \A u \in DOMAIN users \cap DOMAIN users' : users'[u].role = users[u].role
       /\ \A r \in DOMAIN restaurants \cap DOMAIN restaurants' :
             restaurants'[r].admin_id = restaurants[r].admin_id
       /\ \A r \in DOMAIN restaurants' \ DOMAIN restaurants :
             /\ resp'.op = "create_restaurant" /\ resp'.status = 201
             /\ restaurants'[r].admin_id = resp'.caller
             /\ resp'.caller \in DOMAIN users /\ users[resp'.caller].role = "admin"
       /\ \A r \in DOMAIN restaurants' :
             restaurants'[r].admin_id \in DOMAIN users' =>
                users'[restaurants'[r].admin_id].role = "admin"]_vars

(* C28 witness: update_user has just written the row of the admin of a stored
   restaurant *)
C28_Witness ==
    /\ resp.op = "update_user" /\ resp.status = 200
    /\ \E r \in DOMAIN restaurants : restaurants[r].admin_id = resp.id
    /\ users[resp.id].role = "admin"

(***************************************************************************)
(* Whose rows: two users who order and reserve at one restaurant, with      *)
(* bodies that name a user, and the lists of a user's own rows.            *)
(***************************************************************************)
OwnMaxUsers == 2
OwnMaxRestaurants == 1
OwnMaxMenus == 1
OwnMaxOrders == 2
OwnMaxReservations == 2

(* the body as it is, and with a user_id key for each user *)
NamingUser(body) == {body} \cup {body @@ [user_id |-> u] : u \in 1..OwnMaxUsers}

NextOwn ==
    \/ \E data \in FreshUsers : seq.user <= OwnMaxUsers /\ register(FALSE, data)
    \/ \E c \in Callers, data \in OneRestaurant :
          seq.restaurant <= OwnMaxRestaurants /\ create_restaurant(FALSE, c, data)
    \/ \E c \in Callers, id \in 1..OwnMaxRestaurants : delete_restaurant(FALSE, c, id)
    \/ \E c \in Callers : seq.menu <= OwnMaxMenus /\ create_menu(FALSE, c, OneMenu)
    \/ \E c \in Callers, data \in NamingUser(OneOrder) :
          seq.order <= OwnMaxOrders /\ create_order(c, data)
    \/ create_order_save
    \/ create_order_item
    \/ \E c \in Callers, data \in NamingUser(OneReservation) :
          seq.reservation <= OwnMaxReservations /\ create_reservation(c, data)
    \/ \E c \in Callers : get_user_orders(c)
    \/ \E c \in Callers : get_user_reservations(c)

SpecOwn == Init /\ [][NextOwn]_vars

(* C30: an order or a reservation is stored with the user_id of the caller of
   the request that creates it, whatever its body holds, and with the id of a
   restaurant that is stored at that time; no step changes the user_id of a
   stored row; get_user_orders and get_user_reservations answer with exactly
   the rows whose user_id is the caller. *)
C30_RowsBelongToTheirCaller ==
    [][/\ (co.pc = "idle" /\ co'.pc = "save_order") =>
             \A c \in Callers, data \in NamingUser(OneOrder) :
                create_order(c, data) => co'.caller = c
       /\ \A o \in DOMAIN orders' \ DOMAIN orders :
             /\ co.pc = "save_order"
             /\ orders'[o].user_id = co.caller
             /\ orders'[o].restaurant_id \in DOMAIN restaurants
       /\ Answers(201) => orders'[resp'.id].user_id = resp'.caller
       /\ \A v \in DOMAIN reservations' \ DOMAIN reservations :
             /\ resp'.op = "create_reservation" /\ resp'.status = 201
             /\ reservations'[v].user_id = resp'.caller
             /\ reservations'[v].restaurant_id \in DOMAIN restaurants
       /\ \A o \in DOMAIN orders \cap DOMAIN orders' : orders'[o].user_id = orders[o].user_id
       /\ \A v \in DOMAIN reservations \cap DOMAIN reservations' :
             reservations'[v].user_id = reservations[v].user_id
       /\ resp'.op = "get_user_orders" =>
             /\ resp'.status = 200
             /\ {j.id : j \in resp'.body} =
                   {o \in DOMAIN orders : orders[o].user_id = resp'.caller}
             /\ Cardinality(resp'.body) = Cardinality({j.id : j \in resp'.body})
       /\ resp'.op = "get_user_reservations" =>
             /\ resp'.status = 200
             /\ {j.id : j \in resp'.body} =
                   {v \in DOMAIN reservations : reservations[v].user_id = resp'.caller}
             /\ Cardinality(resp'.body) = Cardinality({j.id : j \in resp'.body})]_vars

(* C30 witness: each of two users has an order, and get_user_orders has
   answered one of them with a list that is not empty *)
C30_Witness ==
    /\ resp.op = "get_user_orders" /\ resp.body # {}
    /\ \E o \in DOMAIN orders : orders[o].user_id # resp.caller
    /\ \E v \in DOMAIN reservations : reservations[v].user_id # resp.caller

====
